---- MODULE Spec2Model ----
(***************************************************************************)
(* Tell-Tale Bot: wallet risk analysis.                                    *)
(*                                                                         *)
(* The module models, each under its own specification,                    *)
(*   - the risk scoring engine (computeRiskScore)         : SpecScore      *)
(*   - the RPC provider rotator (withFallback)            : SpecRpc        *)
(*   - the expiring cache (TtlCache)                      : SpecCache      *)
(*   - the data aggregator (fetchWalletData)              : SpecFetch      *)
(*   - the request pipeline of index.ts                   : SpecPipeline   *)
(*                                                                         *)
(* Conventions.                                                            *)
(*   Addresses are records [id, upper]: `upper' tells whether the hex      *)
(*   letters are written in upper case, toLowerCase clears it.             *)
(*   Signal weights are kept in hundredths (0.15 is 15), so the weighted   *)
(*   sum is an exact integer in hundredths of a point.  For every          *)
(*   combination of the signal scores the code can produce, the IEEE-754   *)
(*   evaluation of the reduce() and Math.round agrees with this exact      *)
(*   arithmetic (19200 combinations, checked by enumeration).              *)
(*   Transaction values are kept in gwei (10^9 gwei = 1 ETH).              *)
(***************************************************************************)
EXTENDS Integers, Sequences, FiniteSets, TLC

\* ------------------------------------------------------------------------
\* Bounds of the model
\* ------------------------------------------------------------------------
MaxFlags == 3
MaxTxs == 11
MaxTokens == 51

\* ------------------------------------------------------------------------
\* Generic helpers
\* ------------------------------------------------------------------------
\* null of a nullable number (accountAge, firstTxTimestamp)
NULL == -1

RECURSIVE SumSeq(_)
SumSeq(s) == IF s = <<>> THEN 0 ELSE Head(s) + SumSeq(Tail(s))

RECURSIVE InsertSorted(_, _)
InsertSorted(x, s) ==
  IF s = <<>> THEN <<x>>
  ELSE IF x <= Head(s) THEN <<x>> \o s
  ELSE <<Head(s)>> \o InsertSorted(x, Tail(s))

RECURSIVE SortAsc(_)
SortAsc(s) == IF s = <<>> THEN <<>> ELSE InsertSorted(Head(s), SortAsc(Tail(s)))

Range(s) == {s[i] : i \in 1..Len(s)}

toLowerCase(a) == [a EXCEPT !.upper = FALSE]

\* ------------------------------------------------------------------------
\* Risk scoring engine (src/src/services/riskScorer.ts)
\* ------------------------------------------------------------------------
SecondsPerDay == 86400
GweiPerEth == 1000000000
ClusterWindow == 3600

ApproveSelectorMax == "0x095ea7b3+spender+ffff(64)"
ApproveSelectorAmount == "0x095ea7b3+spender+amount"
TransferSelectorMax == "0xa9059cbb+to+ffff(64)"
EmptyInput == "0x"

ApproveName == "Approve(address spender, uint256 amount)"
TransferName == "transfer(address to, uint256 amount)"

\* functionName.toLowerCase().includes('approve')
nameIncludesApprove(name) == name \in {ApproveName, "approve(address,uint256)"}
\* input.startsWith('0x095ea7b3')
startsWithApproveSelector(input) == input \in {ApproveSelectorMax, ApproveSelectorAmount}
\* input.includes('f' x 64)
includesMaxUint(input) == input \in {ApproveSelectorMax, TransferSelectorMax}

\* f.description.toLowerCase().includes(addr.toLowerCase()): a description is
\* modelled by the set of address tokens written in it.
descriptionIncludes(flag, addr) ==
  \E m \in flag.mentions : toLowerCase(m) = toLowerCase(addr)

scoreAccountAgeMutNullIsOld(d) ==
  [name |-> "Account Age", weight |-> 10,
   score |-> IF d.accountAge = NULL \/ d.accountAge >= 180 * SecondsPerDay THEN 10
             ELSE IF d.accountAge < 7 * SecondsPerDay THEN 90
             ELSE IF d.accountAge < 30 * SecondsPerDay THEN 60
             ELSE 30]

scoreAccountAge(d) ==
  LET score == IF d.accountAge = NULL THEN 70
               ELSE IF d.accountAge < 7 * SecondsPerDay THEN 90
               ELSE IF d.accountAge < 30 * SecondsPerDay THEN 60
               ELSE IF d.accountAge < 180 * SecondsPerDay THEN 30
               ELSE 10
  IN [name |-> "Account Age", weight |-> 10, score |-> score]

scoreTransactionVolume(d) ==
  LET txCount == d.transactionCount
      score == IF txCount = 0 THEN 50
               ELSE IF txCount < 5 THEN 60
               ELSE IF txCount < 20 THEN 30
               ELSE IF txCount > 500 THEN 40
               ELSE 10
  IN [name |-> "Transaction Volume", weight |-> 15, score |-> score]

scoreScamInteractions(d) ==
  LET flagCount == Len(d.scamFlags)
      score == IF flagCount = 0 THEN 0
               ELSE IF flagCount * 40 < 100 THEN flagCount * 40 ELSE 100
  IN [name |-> "Scam Database", weight |-> 25, score |-> score]

isLargeValue(tx) == tx.value > GweiPerEth

hasClusterIn(ts) == \E i \in 2..Len(ts) : ts[i] - ts[i - 1] < ClusterWindow

scoreLargeTransfers(d) ==
  LET txs == d.transactions
      outgoing == SelectSeq(txs, LAMBDA tx : toLowerCase(tx.from) = toLowerCase(d.address))
      largeOutgoing == SelectSeq(outgoing, isLargeValue)
      largeTimestamps == SortAsc([i \in 1..Len(largeOutgoing) |-> largeOutgoing[i].timeStamp])
      hasCluster == hasClusterIn(largeTimestamps)
      score == IF Len(txs) = 0 THEN 20
               ELSE IF hasCluster THEN 80
               ELSE IF Len(largeOutgoing) > 5 THEN 50
               ELSE IF Len(largeOutgoing) > 0 THEN 20
               ELSE 5
  IN [name |-> "Large Transfers", weight |-> 15, score |-> score]

scoreContractApprovals(d) ==
  LET approveTxs == SelectSeq(d.transactions,
                      LAMBDA tx : nameIncludesApprove(tx.functionName)
                                  \/ startsWithApproveSelector(tx.input))
      unlimitedApprovals == SelectSeq(d.transactions,
                      LAMBDA tx : startsWithApproveSelector(tx.input)
                                  /\ includesMaxUint(tx.input))
      score == IF Len(unlimitedApprovals) > 5 THEN 70
               ELSE IF Len(approveTxs) > 10 THEN 50
               ELSE IF Len(approveTxs) > 0 THEN 15
               ELSE 5
  IN [name |-> "Contract Approvals", weight |-> 15, score |-> score]

scoreFundingSource(d) ==
  LET incoming == SelectSeq(d.transactions,
                    LAMBDA tx : toLowerCase(tx.to) = toLowerCase(d.address))
      flaggedFunders == SelectSeq(incoming,
                    LAMBDA tx : \E i \in 1..Len(d.scamFlags) :
                                   descriptionIncludes(d.scamFlags[i], tx.from))
      score == IF Len(incoming) = 0 THEN 40
               ELSE IF Len(flaggedFunders) > 0 THEN 90
               ELSE 10
  IN [name |-> "Funding Source", weight |-> 10, score |-> score]

scoreTokenDiversity(d) ==
  LET uniqueTokens == {toLowerCase(d.tokenTransfers[i].contractAddress) :
                         i \in 1..Len(d.tokenTransfers)}
      tokenCount == Cardinality(uniqueTokens)
      score == IF tokenCount > 50 THEN 60
               ELSE IF tokenCount > 20 THEN 30
               ELSE IF tokenCount > 0 THEN 10
               ELSE 15
  IN [name |-> "Token Diversity", weight |-> 10, score |-> score]

scamBoostOfMutNoSingle(d) ==
  IF Len(d.scamFlags) >= 3 THEN 20
  ELSE IF Len(d.scamFlags) >= 2 THEN 15
  ELSE 0

scamBoostOf(d) ==
  IF Len(d.scamFlags) >= 3 THEN 20
  ELSE IF Len(d.scamFlags) >= 2 THEN 15
  ELSE IF Len(d.scamFlags) >= 1 THEN 10
  ELSE 0

MathRound100MutFloor(x) == x \div 100

\* Math.round of a non-negative value given in hundredths
MathRound100(x) == (x + 50) \div 100

clampScoreMutNoClamp(score) == score

\* Math.max(0, Math.min(100, score))
clampScore(score) ==
  LET m == IF score < 100 THEN score ELSE 100
  IN IF m > 0 THEN m ELSE 0

levelOfMutStrict(clampedScore) ==
  IF clampedScore < 30 THEN "LOW" ELSE IF clampedScore < 60 THEN "MEDIUM" ELSE "HIGH"

levelOf(clampedScore) ==
  IF clampedScore <= 30 THEN "LOW" ELSE IF clampedScore <= 60 THEN "MEDIUM" ELSE "HIGH"

signalsOf(d) ==
  << scoreAccountAge(d), scoreTransactionVolume(d), scoreScamInteractions(d),
     scoreLargeTransfers(d), scoreContractApprovals(d), scoreFundingSource(d),
     scoreTokenDiversity(d) >>

\* signals.reduce((sum, s) => sum + s.score * s.weight, 0) + scamBoost, in hundredths
weightedTotal(d) ==
  LET signals == signalsOf(d)
  IN SumSeq([i \in 1..Len(signals) |-> signals[i].score * signals[i].weight])
     + 100 * scamBoostOf(d)

computeRiskScore(d) ==
  LET signals == signalsOf(d)
      score == MathRound100(weightedTotal(d))
      clampedScore == clampScore(score)
  IN [score |-> clampedScore, level |-> levelOf(clampedScore), signals |-> signals]

\* ------------------------------------------------------------------------
\* Snapshots offered to the scoring engine
\* ------------------------------------------------------------------------
Addr(i, u) == [id |-> i, upper |-> u]
Self == Addr(1, TRUE)          \* the queried address, checksummed (mixed case)
Funder == Addr(2, FALSE)       \* a counterparty named in a flag description
Other == Addr(3, FALSE)        \* a counterparty no flag names

\* A flag's description is a text together with the address tokens written in it
MixerFlag == [source |-> "local", category |-> "mixer",
              text |-> "Tornado Cash Router", mentions |-> {}]
InteractionFlag == [source |-> "local", category |-> "drainer",
                    text |-> "Interacted with flagged address", mentions |-> {Addr(2, TRUE)}]
FlagSamples == {MixerFlag, InteractionFlag}
FlagLists == UNION {[1..n -> FlagSamples] : n \in 0..MaxFlags}

OutSmall == [from |-> toLowerCase(Self), to |-> Other, value |-> GweiPerEth,
             timeStamp |-> 0, functionName |-> TransferName, input |-> EmptyInput]
OutLargeUnlimited == [from |-> toLowerCase(Self), to |-> Other, value |-> GweiPerEth + 1,
             timeStamp |-> 0, functionName |-> "", input |-> ApproveSelectorMax]
OutLargeApprove == [from |-> Self, to |-> Other, value |-> 2 * GweiPerEth,
             timeStamp |-> 0, functionName |-> ApproveName, input |-> TransferSelectorMax]
InFromFunder == [from |-> Funder, to |-> toLowerCase(Self), value |-> 2 * GweiPerEth,
             timeStamp |-> 0, functionName |-> "", input |-> EmptyInput]
InFromOther == [from |-> Other, to |-> Self, value |-> 1,
             timeStamp |-> 0, functionName |-> "", input |-> ApproveSelectorAmount]

\* n copies of a transaction, most recent first, `gap' seconds apart
Burst(tx, n, gap) == [i \in 1..n |-> [tx EXCEPT !.timeStamp = (n - i + 1) * gap]]

TxLists ==
  { Burst(tx, n, gap) \o tail :
      tx \in {OutSmall, OutLargeUnlimited, OutLargeApprove},
      n \in {0, 1, 6, MaxTxs},
      gap \in {ClusterWindow \div 2, ClusterWindow},
      tail \in {<<>>, <<InFromFunder>>, <<InFromOther>>} }

TokenTransfer(i) == [from |-> Other, to |-> Self, contractAddress |-> Addr(10 + i, i % 2 = 0)]
\* n distinct token contracts; the first transfer is repeated in the other letter case
TokenList(n) ==
  IF n = 0 THEN <<>>
  ELSE [i \in 1..n |-> TokenTransfer(i)]
       \o << [TokenTransfer(1) EXCEPT !.contractAddress.upper = TRUE] >>
TokenLists == {TokenList(n) : n \in {0, 1, 21, MaxTokens}}

AgeSamples == {NULL, 3 * SecondsPerDay, 7 * SecondsPerDay - 1, 7 * SecondsPerDay,
               30 * SecondsPerDay, 180 * SecondsPerDay}
TxCountSamples == {0, 4, 5, 20, 501}

NoResult == [score |-> -1, level |-> "NONE", signals |-> <<>>]
NoData == [address |-> Self, balance |-> 0, transactionCount |-> 0, transactions |-> <<>>,
           tokenTransfers |-> <<>>, internalTransactions |-> <<>>, accountAge |-> NULL,
           firstTxTimestamp |-> NULL, isContract |-> FALSE, scamFlags |-> <<>>]

\* ------------------------------------------------------------------------
\* State
\* ------------------------------------------------------------------------
VARIABLES
  data, result,                                        \* scoring engine
  providerCount, activeClient, activeProviderIndex, calls,  \* provider rotator
  rotatorOp,                                           \* last getClient / rotateProvider
  cache, now, lastOp, lastSet,                         \* expiring cache and clock
  localScamDb, fetch,                                  \* scam registry, data aggregator
  requests,                                            \* analysis requests of index.ts
  queries, userLog, lastCheck,                         \* per-user limiter
  timestamps, waiters, recent,                         \* call limiter
  registryOp,                                          \* last scam registry call
  doc                                                  \* last text operation

scorerVars == <<data, result>>
rpcVars == <<providerCount, activeClient, activeProviderIndex, calls, rotatorOp>>
cacheVars == <<cache, now, lastOp, lastSet>>
fetchVars == <<localScamDb, fetch>>
pipeVars == <<requests>>
userVars == <<queries, userLog, lastCheck>>
slotVars == <<timestamps, waiters, recent>>
registryVars == <<registryOp>>
textVars == <<doc>>
auxVars == <<userVars, slotVars, registryVars, textVars>>

vars == <<data, result, providerCount, activeClient, activeProviderIndex, calls, rotatorOp,
          cache, now, lastOp, lastSet, localScamDb, fetch, requests,
          queries, userLog, lastCheck, timestamps, waiters, recent, registryOp, doc>>

\* ------------------------------------------------------------------------
\* RPC provider rotator (src/src/services/rpcFallback.ts)
\* ------------------------------------------------------------------------
MaxProviders == 2
MaxCalls == 2

CallIds == 1..MaxCalls
\* activeClient = null; a client is identified by the index of the endpoint
\* it was constructed from
NoClient == -1

IdleCall == [pc |-> "idle", attempt |-> 0, client |-> NoClient, attempts |-> 0,
             failed |-> {}, value |-> NoClient]

\* getClient(): the cached client, or one constructed for the active index
getClient(client, index) == IF client # NoClient THEN client ELSE index

rotateIndexMutStay(index, n) == index

\* rotateProvider(): activeProviderIndex = (activeProviderIndex + 1) % length
rotateIndex(index, n) == (index + 1) % n

rotateClientMutKeep(client) == client

\* rotateProvider(): activeClient = null
rotateClient(client) == NoClient

\* The last getClient() or rotateProvider() call: the active index it found,
\* the client getClient returned, the client returned by the first getClient
\* since the last rotation, and the run of consecutive rotations (the index
\* the run started from, its length, restarted after providerCount rotations)
NoRotatorOp == [op |-> "none", index |-> 0, ret |-> NoClient, epochClient |-> NoClient,
                start |-> 0, streak |-> 0]

noteGet(op, index, ret) ==
  [op |-> "get", index |-> index, ret |-> ret,
   epochClient |-> IF op.epochClient = NoClient THEN ret ELSE op.epochClient,
   start |-> index, streak |-> 0]

noteRotate(op, index, n) ==
  [op |-> "rotate", index |-> index, ret |-> NoClient, epochClient |-> NoClient,
   start |-> IF op.streak \in {0, n} THEN index ELSE op.start,
   streak |-> IF op.streak \in {0, n} THEN 1 ELSE op.streak + 1]

maxAttemptsMutOneMore(n) == n + 1

\* const maxAttempts = config.rpcProviders.length
maxAttempts(n) == n

ScorerIdle == data = NoData /\ result = NoResult

RpcIdle ==
  /\ providerCount = 1
  /\ activeClient = NoClient
  /\ activeProviderIndex = 0
  /\ rotatorOp = NoRotatorOp
  /\ calls = [c \in CallIds |-> IdleCall]

InitRpc ==
  /\ providerCount \in 1..MaxProviders
  /\ activeClient = NoClient
  /\ activeProviderIndex = 0
  /\ rotatorOp = NoRotatorOp
  /\ calls = [c \in CallIds |-> IdleCall]

\* withFallback is entered: first loop iteration up to the await of fn(client)
StartCall(c) ==
  /\ calls[c].pc \in {"idle", "returned", "thrown"}
  /\ activeClient' = getClient(activeClient, activeProviderIndex)
  /\ calls' = [calls EXCEPT ![c] = [pc |-> "await", attempt |-> 0,
                                    client |-> activeClient', attempts |-> 1,
                                    failed |-> {}, value |-> NoClient]]
  /\ rotatorOp' = noteGet(rotatorOp, activeProviderIndex, activeClient')
  /\ UNCHANGED <<providerCount, activeProviderIndex>>

\* fn(client) resolves: withFallback returns its value
AttemptSucceeds(c) ==
  /\ calls[c].pc = "await"
  /\ calls' = [calls EXCEPT ![c].pc = "returned", ![c].value = calls[c].client]
  /\ UNCHANGED <<providerCount, activeClient, activeProviderIndex, rotatorOp>>

\* fn(client) rejects: catch block, rotateProvider(), attempt++, and either the
\* next iteration up to its await or the terminal throw
AttemptFails(c) ==
  /\ calls[c].pc = "await"
  /\ LET index2 == rotateIndex(activeProviderIndex, providerCount)
         attempt2 == calls[c].attempt + 1
         failed2 == calls[c].failed \cup {calls[c].client}
         rotated == noteRotate(rotatorOp, activeProviderIndex, providerCount)
     IN /\ activeProviderIndex' = index2
        /\ IF attempt2 < maxAttempts(providerCount)
           THEN /\ activeClient' = getClient(rotateClient(activeClient), index2)
                /\ rotatorOp' = noteGet(rotated, index2, activeClient')
                /\ calls' = [calls EXCEPT ![c] =
                     [pc |-> "await", attempt |-> attempt2, client |-> activeClient',
                      attempts |-> calls[c].attempts + 1, failed |-> failed2,
                      value |-> NoClient]]
           ELSE /\ activeClient' = rotateClient(activeClient)
                /\ rotatorOp' = rotated
                /\ calls' = [calls EXCEPT ![c].pc = "thrown", ![c].attempt = attempt2,
                                          ![c].failed = failed2]
  /\ UNCHANGED providerCount

\* getClient() called on its own
GetClient ==
  /\ activeClient' = getClient(activeClient, activeProviderIndex)
  /\ rotatorOp' = noteGet(rotatorOp, activeProviderIndex, activeClient')
  /\ UNCHANGED <<providerCount, activeProviderIndex, calls>>

\* rotateProvider() called on its own
RotateProvider ==
  /\ activeProviderIndex' = rotateIndex(activeProviderIndex, providerCount)
  /\ activeClient' = rotateClient(activeClient)
  /\ rotatorOp' = noteRotate(rotatorOp, activeProviderIndex, providerCount)
  /\ UNCHANGED <<providerCount, calls>>

\* withFallback calls together with direct getClient and rotateProvider calls
NextRotator ==
  \/ \E c \in CallIds :
       StartCall(c) /\ UNCHANGED <<scorerVars, cacheVars, fetchVars, pipeVars, auxVars>>
  \/ \E c \in CallIds :
       AttemptSucceeds(c) /\ UNCHANGED <<scorerVars, cacheVars, fetchVars, pipeVars, auxVars>>
  \/ \E c \in CallIds :
       AttemptFails(c) /\ UNCHANGED <<scorerVars, cacheVars, fetchVars, pipeVars, auxVars>>
  \/ GetClient /\ UNCHANGED <<scorerVars, cacheVars, fetchVars, pipeVars, auxVars>>
  \/ RotateProvider /\ UNCHANGED <<scorerVars, cacheVars, fetchVars, pipeVars, auxVars>>

NextRpc ==
  \E c \in CallIds :
    \/ StartCall(c) /\ UNCHANGED <<scorerVars, cacheVars, fetchVars, pipeVars, auxVars>>
    \/ AttemptSucceeds(c) /\ UNCHANGED <<scorerVars, cacheVars, fetchVars, pipeVars, auxVars>>
    \/ AttemptFails(c) /\ UNCHANGED <<scorerVars, cacheVars, fetchVars, pipeVars, auxVars>>

\* ------------------------------------------------------------------------
\* Expiring cache (src/src/services/basescan.ts, class TtlCache)
\* ------------------------------------------------------------------------
CacheTtl == 2
MaxTime == 4

CacheKeys == {Addr(1, TRUE), Addr(2, TRUE)}

\* the empty string (no address; no recipient: contract creation)
NoAddr == Addr(0, FALSE)
\* the cache holds reports (new TtlCache<WalletReport>)
NoReport == [address |-> NoAddr, riskScore |-> -1, riskLevel |-> "NONE", by |-> 0]
CacheValues ==
  { [address |-> Addr(1, TRUE), riskScore |-> 12, riskLevel |-> "LOW", by |-> 1],
    [address |-> Addr(1, TRUE), riskScore |-> 72, riskLevel |-> "HIGH", by |-> 2] }

NoEntry == [present |-> FALSE, value |-> NoReport, expiresAt |-> 0]
Undefined == [defined |-> FALSE, value |-> NoReport]
Defined(v) == [defined |-> TRUE, value |-> v]

NoOp == [op |-> "none", key |-> Addr(1, TRUE), at |-> 0, ret |-> Undefined]
NoSet == [done |-> FALSE, value |-> NoReport, at |-> 0, replaced |-> FALSE, prevAt |-> 0]

isExpiredMutNever(entry, t) == FALSE

isExpiredMutAtBoundary(entry, t) == t >= entry.expiresAt

\* Date.now() > entry.expiresAt
isExpired(entry, t) == t > entry.expiresAt

\* TtlCache.get: the returned value and the map after the call
ttlGet(c, key, t) ==
  IF ~c[key].present THEN [ret |-> Undefined, cache |-> c]
  ELSE IF isExpired(c[key], t)
       THEN [ret |-> Undefined, cache |-> [c EXCEPT ![key] = NoEntry]]
       ELSE [ret |-> Defined(c[key].value), cache |-> c]

\* TtlCache.set: the map after the call
ttlSet(c, key, value, t) ==
  [c EXCEPT ![key] = [present |-> TRUE, value |-> value, expiresAt |-> t + CacheTtl]]

CacheIdle ==
  /\ cache = [k \in CacheKeys |-> NoEntry]
  /\ now = 0
  /\ lastOp = NoOp
  /\ lastSet = [k \in CacheKeys |-> NoSet]

InitCache == CacheIdle

\* lastSet remembers, for each key, the latest set since the last clear
CacheSet(key, value) ==
  /\ cache' = ttlSet(cache, key, value, now)
  /\ lastOp' = [op |-> "set", key |-> key, at |-> now, ret |-> Undefined]
  /\ lastSet' = [lastSet EXCEPT ![key] =
                   [done |-> TRUE, value |-> value, at |-> now,
                    replaced |-> lastSet[key].done, prevAt |-> lastSet[key].at]]
  /\ UNCHANGED now

CacheGet(key) ==
  /\ cache' = ttlGet(cache, key, now).cache
  /\ lastOp' = [op |-> "get", key |-> key, at |-> now, ret |-> ttlGet(cache, key, now).ret]
  /\ UNCHANGED <<now, lastSet>>

\* has(key) is get(key) !== undefined
CacheHas(key) ==
  /\ cache' = ttlGet(cache, key, now).cache
  /\ lastOp' = [op |-> "has", key |-> key, at |-> now,
                ret |-> [defined |-> ttlGet(cache, key, now).ret.defined, value |-> NoReport]]
  /\ UNCHANGED <<now, lastSet>>

CacheClear ==
  /\ cache' = [k \in CacheKeys |-> NoEntry]
  /\ lastOp' = [op |-> "clear", key |-> lastOp.key, at |-> now, ret |-> Undefined]
  /\ lastSet' = [k \in CacheKeys |-> NoSet]
  /\ UNCHANGED now

Tick ==
  /\ now < MaxTime
  /\ now' = now + 1
  /\ UNCHANGED <<cache, lastOp, lastSet>>

NextCache ==
  \/ \E k \in CacheKeys, v \in CacheValues : CacheSet(k, v) /\ UNCHANGED <<scorerVars, rpcVars, fetchVars, pipeVars, auxVars>>
  \/ \E k \in CacheKeys : CacheGet(k) /\ UNCHANGED <<scorerVars, rpcVars, fetchVars, pipeVars, auxVars>>
  \/ \E k \in CacheKeys : CacheHas(k) /\ UNCHANGED <<scorerVars, rpcVars, fetchVars, pipeVars, auxVars>>
  \/ CacheClear /\ UNCHANGED <<scorerVars, rpcVars, fetchVars, pipeVars, auxVars>>
  \/ Tick /\ UNCHANGED <<scorerVars, rpcVars, fetchVars, pipeVars, auxVars>>



\* ------------------------------------------------------------------------
\* Scam registry lookups used by the aggregator (scamDb.ts, knownContracts)
\* ------------------------------------------------------------------------
Scammer == Addr(4, FALSE)      \* an address of the local scam table
Usdc == Addr(5, FALSE)         \* a whitelisted contract

\* whitelistedAddresses: lowercase addresses of knownContracts
whitelistedAddresses == {Usdc}

isWhitelistedMutCaseSensitive(address) == address \in whitelistedAddresses

\* whitelistedAddresses.has(address.toLowerCase())
isWhitelisted(address) == toLowerCase(address) \in whitelistedAddresses

\* localScamDb is a map from lowercase address to [category, text, mentions]
localFlag(entry) == [source |-> "local", category |-> entry.category,
                     text |-> entry.text, mentions |-> entry.mentions]

\* the local part of checkAddress
localFlagsOf(db, address) ==
  IF toLowerCase(address) \in DOMAIN db
  THEN << localFlag(db[toLowerCase(address)]) >>
  ELSE <<>>

\* checkAddress: local flags, then the remote flags unless the remote call failed
checkAddress(db, address, remoteOk, remoteFlags) ==
  localFlagsOf(db, address) \o (IF remoteOk THEN remoteFlags ELSE <<>>)

\* batchCheckLocal: the (address, flag) pairs in the order of insertion
RECURSIVE batchCheckLocal(_, _)
batchCheckLocal(db, addresses) ==
  IF addresses = <<>> THEN <<>>
  ELSE LET addr == Head(addresses)
           rest == batchCheckLocal(db, Tail(addresses))
       IN IF isWhitelisted(addr) THEN rest
          ELSE IF toLowerCase(addr) \in DOMAIN db
               THEN << [addr |-> addr, flag |-> localFlag(db[toLowerCase(addr)])] >>
                      \o SelectSeq(rest, LAMBDA e : e.addr # addr)
               ELSE rest

\* ------------------------------------------------------------------------
\* Data aggregator (src/src/services/basescan.ts, fetchWalletData)
\* ------------------------------------------------------------------------
SimpleBranches == {"transactions", "internal", "tokens", "scam", "firstTx"}

\* [...new Set(list)]: first occurrences, in order
RECURSIVE uniqueInOrder(_)
uniqueInOrder(s) ==
  IF s = <<>> THEN <<>>
  ELSE LET init == uniqueInOrder(SubSeq(s, 1, Len(s) - 1))
           last == s[Len(s)]
       IN IF last \in Range(init) THEN init ELSE Append(init, last)

\* the interacted addresses: recipients and senders of the transactions, then
\* of the token transfers, without empty strings and without repetitions
interactedAddresses(txs, tokenTxs) ==
  uniqueInOrder(SelectSeq(
      [i \in 1..Len(txs) |-> txs[i].to] \o [i \in 1..Len(txs) |-> txs[i].from]
      \o [i \in 1..Len(tokenTxs) |-> tokenTxs[i].to]
      \o [i \in 1..Len(tokenTxs) |-> tokenTxs[i].from],
      LAMBDA a : a # NoAddr))

\* flags.push({...flag, description: `Interacted with flagged address ${addr}: ...`})
interactionFlagsOf(db, txs, tokenTxs) ==
  LET found == batchCheckLocal(db, interactedAddresses(txs, tokenTxs))
  IN [i \in 1..Len(found) |->
        [found[i].flag EXCEPT !.text = "Interacted with flagged address",
                              !.mentions = {found[i].addr} \cup found[i].flag.mentions]]

validTimestamps(txs) ==
  SelectSeq([i \in 1..Len(txs) |-> txs[i].timeStamp], LAMBDA t : t > 0)

RECURSIVE MinSeq(_)
MinSeq(s) == IF Len(s) = 1 THEN s[1]
             ELSE LET m == MinSeq(Tail(s)) IN IF s[1] < m THEN s[1] ELSE m

\* the first-transaction timestamp: the dedicated query when it gave a usable
\* timestamp, else the oldest timestamp of the fetched batches, else null
firstTxTimestampOf(firstTransaction, txs, internalTxs) ==
  IF firstTransaction.present /\ firstTransaction.timeStamp > 0
  THEN firstTransaction.timeStamp
  ELSE LET all == validTimestamps(txs) \o validTimestamps(internalTxs)
       IN IF Len(all) > 0 THEN MinSeq(all) ELSE NULL

settledValueMutLost(status, value, default) == default

\* x.status === 'fulfilled' ? x.value : default
settledValue(status, value, default) == IF status = "fulfilled" THEN value ELSE default

joinAllMutFailFast(statuses) ==
  IF \E b \in DOMAIN statuses : statuses[b] = "rejected" THEN "rejected" ELSE "done"

\* Promise.allSettled never rejects
joinAll(statuses) == "done"

\* the body of fetchWalletData after the join; s[b] is the settled promise of
\* branch b: [status, value]
assembleSnapshot(address, s, db, t) ==
  LET txs == settledValue(s["transactions"].status, s["transactions"].value, <<>>)
      internalTxs == settledValue(s["internal"].status, s["internal"].value, <<>>)
      tokenTxs == settledValue(s["tokens"].status, s["tokens"].value, <<>>)
      bal == settledValue(s["balance"].status, s["balance"].value, 0)
      isContractAddr == settledValue(s["contract"].status, s["contract"].value, FALSE)
      flags == settledValue(s["scam"].status, s["scam"].value, <<>>)
      firstTransaction == settledValue(s["firstTx"].status, s["firstTx"].value,
                                       [present |-> FALSE, timeStamp |-> 0])
      firstTxTimestamp == firstTxTimestampOf(firstTransaction, txs, internalTxs)
  IN [address |-> address,
      balance |-> bal,
      transactionCount |-> Len(txs),
      transactions |-> txs,
      tokenTransfers |-> tokenTxs,
      internalTransactions |-> internalTxs,
      accountAge |-> IF firstTxTimestamp # NULL THEN t - firstTxTimestamp ELSE NULL,
      firstTxTimestamp |-> firstTxTimestamp,
      isContract |-> isContractAddr,
      scamFlags |-> flags \o interactionFlagsOf(db, txs, tokenTxs)]

\* ------------------------------------------------------------------------
\* Analysis requests (src/src/index.ts)
\* ------------------------------------------------------------------------
MaxRequests == 2

ReqIds == 1..MaxRequests

\* a request: where its handler is suspended, what it was asked, whether the
\* cache check hit, the pipeline steps it ran, the report it holds, and what
\* the caller received (replies posted or the HTTP response)
\* `text' is the input the address is extracted from and `sent' the replies
\* the handler issued (res.json / res.status(..).json, or a postReply call)
IdleRequest ==
  [pc |-> "idle", kind |-> "none", text |-> <<>>, address |-> NoAddr, hit |-> FALSE,
   ran |-> {}, report |-> NoReport, sent |-> <<>>, out |-> <<>>]

PipeIdle == requests = [r \in ReqIds |-> IdleRequest]

\* the snapshots fetchWalletData hands to the pipeline
PipelineSnapshots(address) ==
  { [NoData EXCEPT !.address = address, !.accountAge = SecondsPerDay,
                   !.firstTxTimestamp = 1, !.transactionCount = 2,
                   !.scamFlags = <<InteractionFlag, MixerFlag, MixerFlag>>] }

\* generateReport: the report built from the snapshot and the score; `by'
\* tells the pipeline run that built it
generateReport(snapshot, scored, r) ==
  [address |-> snapshot.address, riskScore |-> scored.score,
   riskLevel |-> scored.level, by |-> r]

\* the key of the report cache: the checksummed address extractAddress returned
cacheKeyMutShared(address) == CHOOSE k \in CacheKeys : TRUE

cacheKey(address) == address

InitPipeline ==
  /\ PipeIdle
  /\ cache = [k \in CacheKeys |-> NoEntry]
  /\ now = 0
  /\ lastOp = NoOp
  /\ lastSet = [k \in CacheKeys |-> NoSet]

\* The input of a request is a text of characters: "0" and "x", the hex digits
\* "1" and "2", and "g", a character that is no hex digit.
AddrDigits == 40

HexRun(c, n) == <<"0", "x">> \o [i \in 1..n |-> c]

\* an address of each cache key, a hex string one digit short, one digit
\* long, and 40 characters with a character that is no hex digit
RequestTexts ==
  {HexRun("1", AddrDigits), HexRun("2", AddrDigits),
   HexRun("1", AddrDigits - 1), HexRun("1", AddrDigits + 1),
   HexRun("1", AddrDigits - 2) \o <<"g", "1">>}

isHexDigit(c) == c \in {"0", "1", "2"}

\* /0x[a-fA-F0-9]{40}/ matches at position i
matchesAt(text, i) ==
  /\ i + 1 + AddrDigits <= Len(text)
  /\ text[i] = "0" /\ text[i + 1] = "x"
  /\ \A j \in 1..AddrDigits : isHexDigit(text[i + 1 + j])

\* getAddress(raw): the checksummed address of the 40 digits; the digits of
\* the texts above are all equal, and the digit names the address
getAddress(digits) == Addr(IF digits[1] = "1" THEN 1 ELSE 2, TRUE)

\* extractAddress: the first match of the pattern anywhere in the text,
\* checksummed, or null (isAddress accepts every match of the pattern)
extractAddress(text) ==
  IF \E i \in DOMAIN text : matchesAt(text, i)
  THEN LET first == CHOOSE i \in DOMAIN text :
                      matchesAt(text, i) /\ \A j \in 1..(i - 1) : ~matchesAt(text, j)
       IN getAddress(SubSeq(text, first + 2, first + 1 + AddrDigits))
  ELSE NoAddr

\* The handler runs up to its first suspension: address extraction, the cache
\* check, and on a miss the start of runAnalysis (fetchWalletData is awaited).
\* (webhook: the signature, event type, mention and rate-limit guards passed)
\* Requests are numbered in their order of arrival.
HandleRequest(r, kind, text) ==
  /\ requests[r].pc = "idle"
  /\ \A q \in ReqIds : q < r => requests[q].pc # "idle"
  /\ LET address == extractAddress(text)
         got == ttlGet(cache, cacheKey(address), now)
     IN IF address = NoAddr
        THEN /\ requests' = [requests EXCEPT ![r] =
                  [IdleRequest EXCEPT !.kind = kind, !.text = text,
                      !.pc = IF kind = "webhook" THEN "postInvalid" ELSE "done",
                      !.sent = IF kind = "webhook" THEN <<"invalid address">>
                               ELSE <<"400 invalid address">>,
                      !.out = IF kind = "webhook" THEN <<>> ELSE <<"400 invalid address">>]]
             /\ UNCHANGED cache
        ELSE /\ cache' = got.cache
             /\ IF got.ret.defined
                THEN requests' = [requests EXCEPT ![r] =
                       [IdleRequest EXCEPT !.kind = kind, !.text = text, !.address = address,
                          !.hit = TRUE, !.report = got.ret.value,
                          !.pc = IF kind = "webhook" THEN "postCached" ELSE "done",
                          !.sent = IF kind = "webhook" THEN <<"cached report">>
                                   ELSE <<"200 cached report">>,
                          !.out = IF kind = "webhook" THEN <<>> ELSE <<"200 cached report">>]]
                ELSE requests' = [requests EXCEPT ![r] =
                       [IdleRequest EXCEPT !.kind = kind, !.text = text, !.address = address,
                          !.pc = "fetching", !.ran = {"fetch"}]]
  /\ UNCHANGED <<now, lastOp, lastSet>>

\* what a request does when the analysis failed: the webhook path posts the
\* analysis-failed reply, the HTTP path answers 500
analysisFailed(req) ==
  IF req.kind = "webhook"
  THEN [req EXCEPT !.pc = "postFailed", !.report = NoReport,
                   !.sent = Append(@, "analysis failed")]
  ELSE [req EXCEPT !.pc = "done", !.report = NoReport,
                   !.sent = Append(@, "500 analysis failed"),
                   !.out = <<"500 analysis failed">>]

\* fetchWalletData resolved: computeRiskScore runs (it throws on malformed
\* transaction data) and generateReport is awaited
FetchDone(r, snapshot, throws) ==
  /\ requests[r].pc = "fetching"
  /\ snapshot \in PipelineSnapshots(requests[r].address)
  /\ IF throws
     THEN requests' = [requests EXCEPT ![r] =
            analysisFailed([requests[r] EXCEPT !.ran = @ \cup {"score"}])]
     ELSE requests' = [requests EXCEPT ![r].pc = "generating",
            ![r].ran = @ \cup {"score", "generate"},
            ![r].report = generateReport(snapshot, computeRiskScore(snapshot), r)]
  /\ UNCHANGED cacheVars

\* generateReport settled: on success the report is cached and handed back
\* (HTTP response, or formatForCast and postReply on the webhook path)
GenerateDone(r, ok) ==
  /\ requests[r].pc = "generating"
  /\ IF ok
     THEN /\ cache' = ttlSet(cache, cacheKey(requests[r].address), requests[r].report, now)
          /\ requests' = [requests EXCEPT
               ![r].pc = IF requests[r].kind = "webhook" THEN "posting" ELSE "done",
               ![r].sent = IF requests[r].kind = "webhook" THEN <<"report">>
                           ELSE <<"200 report">>,
               ![r].out = IF requests[r].kind = "webhook" THEN <<>>
                          ELSE <<"200 report">>]
     ELSE /\ requests' = [requests EXCEPT ![r] = analysisFailed(requests[r])]
          /\ UNCHANGED cache
  /\ UNCHANGED <<now, lastOp, lastSet>>

\* postReply settled.  A failed post of the analysed report is caught by
\* analyzeAndReply, which posts the analysis-failed reply; the other failures
\* reach the handler's outer catch, which only logs.
PostDone(r, ok) ==
  /\ requests[r].pc \in {"postInvalid", "postCached", "posting", "postFailed"}
  /\ LET req == requests[r]
         text == CASE req.pc = "postInvalid" -> "invalid address"
                   [] req.pc = "postCached" -> "cached report"
                   [] req.pc = "posting" -> "report"
                   [] req.pc = "postFailed" -> "analysis failed"
     IN requests' = [requests EXCEPT ![r] =
          IF ok THEN [req EXCEPT !.pc = "done", !.out = Append(req.out, text)]
          ELSE IF req.pc = "posting"
               THEN [req EXCEPT !.pc = "postFailed", !.sent = Append(@, "analysis failed")]
          ELSE [req EXCEPT !.pc = "done"]]
  /\ UNCHANGED cacheVars

NextPipeline ==
  \/ \E r \in ReqIds, kind \in {"webhook", "http"}, text \in RequestTexts :
       HandleRequest(r, kind, text) /\ UNCHANGED <<scorerVars, rpcVars, fetchVars, auxVars>>
  \/ \E r \in ReqIds, throws \in BOOLEAN :
       \E snapshot \in PipelineSnapshots(requests[r].address) :
         FetchDone(r, snapshot, throws) /\ UNCHANGED <<scorerVars, rpcVars, fetchVars, auxVars>>
  \/ \E r \in ReqIds, ok \in BOOLEAN :
       GenerateDone(r, ok) /\ UNCHANGED <<scorerVars, rpcVars, fetchVars, auxVars>>
  \/ \E r \in ReqIds, ok \in BOOLEAN :
       PostDone(r, ok) /\ UNCHANGED <<scorerVars, rpcVars, fetchVars, auxVars>>
  \/ Tick /\ UNCHANGED <<scorerVars, rpcVars, fetchVars, pipeVars, auxVars>>

\* What the external sources answer when they answer
TxOutScam == [from |-> toLowerCase(Self), to |-> Scammer, value |-> 2 * GweiPerEth,
              timeStamp |-> 3, functionName |-> "", input |-> EmptyInput]
TxInUsdc == [from |-> Addr(5, TRUE), to |-> toLowerCase(Self), value |-> 1,
             timeStamp |-> 2, functionName |-> TransferName, input |-> EmptyInput]
TxCreate == [from |-> toLowerCase(Self), to |-> NoAddr, value |-> 0,
             timeStamp |-> 4, functionName |-> "", input |-> EmptyInput]
TxOutOther == [from |-> toLowerCase(Self), to |-> Other, value |-> 1,
               timeStamp |-> 5, functionName |-> "", input |-> EmptyInput]
TxInternal == [from |-> Other, to |-> toLowerCase(Self), value |-> 1,
               timeStamp |-> 1, functionName |-> "", input |-> EmptyInput]
TokFromScam == [from |-> Addr(4, TRUE), to |-> toLowerCase(Self),
                contractAddress |-> Addr(11, FALSE)]
ChainAbuseFlag == [source |-> "ChainAbuse", category |-> "scam",
                   text |-> "Reported on ChainAbuse", mentions |-> {}]
NoTransaction == [present |-> FALSE, timeStamp |-> 0]

Worlds ==
  { [txs |-> <<TxOutScam, TxInUsdc, TxCreate>>, internal |-> <<TxInternal>>,
     tokens |-> <<TokFromScam>>, balance |-> 5, rpcBalance |-> 7,
     isContract |-> TRUE, rpcIsContract |-> TRUE,
     remoteFlags |-> <<ChainAbuseFlag>>,
     firstTx |-> [present |-> TRUE, timeStamp |-> 2]],
    [txs |-> <<TxOutOther>>, internal |-> <<>>,
     tokens |-> <<>>, balance |-> 0, rpcBalance |-> 7,
     isContract |-> FALSE, rpcIsContract |-> TRUE,
     remoteFlags |-> <<>>,
     firstTx |-> NoTransaction] }

ScamEntry == [category |-> "drainer", text |-> "Inferno Drainer", mentions |-> {}]
\* the seeded table; the second one also lists a whitelisted contract and the
\* queried address itself
ScamTables ==
  { (Scammer :> ScamEntry),
    (Scammer :> ScamEntry) @@ (Usdc :> ScamEntry) @@ (toLowerCase(Self) :> ScamEntry) }

BalanceCall == 1
ContractCall == 2

PendingCheck == [state |-> "primary", primary |-> "pending", rpc |-> "none", value |-> 0]

IdleFetch ==
  [pc |-> "idle", address |-> Self, world |-> CHOOSE w \in Worlds : TRUE,
   br |-> [b \in SimpleBranches |-> "pending"],
   balance |-> PendingCheck, contract |-> PendingCheck, snapshot |-> NoData]

FetchIdle ==
  /\ localScamDb = (Scammer :> ScamEntry)
  /\ fetch = IdleFetch

InitFetch ==
  /\ localScamDb \in ScamTables
  /\ fetch = IdleFetch
  /\ providerCount \in 1..MaxProviders
  /\ activeClient = NoClient
  /\ activeProviderIndex = 0
  /\ calls = [c \in CallIds |-> IdleCall]
  /\ rotatorOp = NoRotatorOp
  /\ cache = [k \in CacheKeys |-> NoEntry]
  /\ now = MaxTime
  /\ lastOp = NoOp
  /\ lastSet = [k \in CacheKeys |-> NoSet]

\* fetchWalletData(address) is called: the seven branches are started
StartFetch(w) ==
  /\ fetch.pc = "idle"
  /\ fetch' = [fetch EXCEPT !.pc = "running", !.world = w]
  /\ UNCHANGED <<localScamDb, rpcVars>>

\* one of getTransactions, getInternalTransactions, getTokenTransfers,
\* checkAddress (its remote call) and getFirstTransaction completes
SettleSimple(b, outcome) ==
  /\ fetch.pc = "running"
  /\ fetch.br[b] = "pending"
  /\ outcome = "rejected" => b = "firstTx"
  /\ fetch' = [fetch EXCEPT !.br[b] = outcome]
  /\ UNCHANGED <<localScamDb, rpcVars>>

getBalanceMutNoDefault(ok, value) == value

\* basescan.getBalance(address): the value, or 0n when the request failed
getBalance(ok, value) == IF ok THEN value ELSE 0
\* basescan.isContract(address): result !== '0x', or false when the request failed
isContract(ok, value) == IF ok THEN value ELSE FALSE

\* fetchBalanceWithFallback: the primary answer arrives; zero starts the RPC
\* cross-check
BalancePrimary(ok) ==
  /\ fetch.pc = "running"
  /\ fetch.balance.state = "primary"
  /\ LET basescanBalance == getBalance(ok, fetch.world.balance)
         outcome == IF ok THEN "ok" ELSE "failed"
     IN IF basescanBalance = 0
        THEN /\ StartCall(BalanceCall)
             /\ fetch' = [fetch EXCEPT !.balance =
                            [state |-> "rpc", primary |-> outcome, rpc |-> "none", value |-> 0]]
        ELSE /\ fetch' = [fetch EXCEPT !.balance =
                            [state |-> "settled", primary |-> outcome, rpc |-> "none",
                             value |-> basescanBalance]]
             /\ UNCHANGED rpcVars
  /\ UNCHANGED localScamDb

BalanceRpcSucceeds ==
  /\ fetch.pc = "running"
  /\ fetch.balance.state = "rpc"
  /\ AttemptSucceeds(BalanceCall)
  /\ fetch' = [fetch EXCEPT !.balance.state = "settled", !.balance.rpc = "ok",
                            !.balance.value = fetch.world.rpcBalance]
  /\ UNCHANGED localScamDb

\* a failed attempt; when withFallback throws, the catch keeps the primary zero
BalanceRpcFails ==
  /\ fetch.pc = "running"
  /\ fetch.balance.state = "rpc"
  /\ AttemptFails(BalanceCall)
  /\ fetch' = IF calls'[BalanceCall].pc = "thrown"
              THEN [fetch EXCEPT !.balance.state = "settled", !.balance.rpc = "exhausted",
                                 !.balance.value = 0]
              ELSE fetch
  /\ UNCHANGED localScamDb

\* fetchIsContractWithFallback, in the same way (value 1 stands for true)
ContractPrimary(ok) ==
  /\ fetch.pc = "running"
  /\ fetch.contract.state = "primary"
  /\ LET basescanResult == isContract(ok, fetch.world.isContract)
         outcome == IF ok THEN "ok" ELSE "failed"
     IN IF ~basescanResult
        THEN /\ StartCall(ContractCall)
             /\ fetch' = [fetch EXCEPT !.contract =
                            [state |-> "rpc", primary |-> outcome, rpc |-> "none", value |-> 0]]
        ELSE /\ fetch' = [fetch EXCEPT !.contract =
                            [state |-> "settled", primary |-> outcome, rpc |-> "none",
                             value |-> 1]]
             /\ UNCHANGED rpcVars
  /\ UNCHANGED localScamDb

ContractRpcSucceeds ==
  /\ fetch.pc = "running"
  /\ fetch.contract.state = "rpc"
  /\ AttemptSucceeds(ContractCall)
  /\ fetch' = [fetch EXCEPT !.contract.state = "settled", !.contract.rpc = "ok",
                            !.contract.value = IF fetch.world.rpcIsContract THEN 1 ELSE 0]
  /\ UNCHANGED localScamDb

ContractRpcFails ==
  /\ fetch.pc = "running"
  /\ fetch.contract.state = "rpc"
  /\ AttemptFails(ContractCall)
  /\ fetch' = IF calls'[ContractCall].pc = "thrown"
              THEN [fetch EXCEPT !.contract.state = "settled", !.contract.rpc = "exhausted",
                                 !.contract.value = 0]
              ELSE fetch
  /\ UNCHANGED localScamDb

AllSettled ==
  /\ \A b \in SimpleBranches : fetch.br[b] # "pending"
  /\ fetch.balance.state = "settled"
  /\ fetch.contract.state = "settled"

\* the promise of a list-returning basescan call: failures are caught inside
\* and give the empty list
listPromise(outcome, value) ==
  [status |-> "fulfilled", value |-> IF outcome = "ok" THEN value ELSE <<>>]

\* getFirstTransaction: the first transaction or null, or a rejected promise
firstTxPromise(outcome, value) ==
  [status |-> IF outcome = "rejected" THEN "rejected" ELSE "fulfilled",
   value |-> IF outcome = "ok" THEN value ELSE NoTransaction]

\* the seven settled promises handed to the continuation of the join
settledPromises(f, db) ==
  [b \in SimpleBranches \cup {"balance", "contract"} |->
     CASE b = "transactions" -> listPromise(f.br[b], f.world.txs)
       [] b = "internal" -> listPromise(f.br[b], f.world.internal)
       [] b = "tokens" -> listPromise(f.br[b], f.world.tokens)
       [] b = "scam" -> [status |-> "fulfilled",
                         value |-> checkAddress(db, f.address, f.br[b] = "ok",
                                                f.world.remoteFlags)]
       [] b = "firstTx" -> firstTxPromise(f.br[b], f.world.firstTx)
       [] b = "balance" -> [status |-> "fulfilled", value |-> f.balance.value]
       [] b = "contract" -> [status |-> "fulfilled", value |-> f.contract.value = 1]]

\* the join and the rest of fetchWalletData
Assemble ==
  /\ fetch.pc = "running"
  /\ AllSettled
  /\ LET s == settledPromises(fetch, localScamDb)
         outcome == joinAll([b \in DOMAIN s |-> s[b].status])
     IN fetch' = [fetch EXCEPT !.pc = outcome,
                               !.snapshot = IF outcome = "done"
                                            THEN assembleSnapshot(fetch.address, s, localScamDb, now)
                                            ELSE NoData]
  /\ UNCHANGED <<localScamDb, rpcVars>>

NextFetch ==
  \/ \E w \in Worlds : StartFetch(w) /\ UNCHANGED <<scorerVars, cacheVars, pipeVars, auxVars>>
  \/ \E b \in SimpleBranches, o \in {"ok", "failed", "rejected"} :
       SettleSimple(b, o) /\ UNCHANGED <<scorerVars, cacheVars, pipeVars, auxVars>>
  \/ \E ok \in BOOLEAN : BalancePrimary(ok) /\ UNCHANGED <<scorerVars, cacheVars, pipeVars, auxVars>>
  \/ BalanceRpcSucceeds /\ UNCHANGED <<scorerVars, cacheVars, pipeVars, auxVars>>
  \/ BalanceRpcFails /\ UNCHANGED <<scorerVars, cacheVars, pipeVars, auxVars>>
  \/ \E ok \in BOOLEAN : ContractPrimary(ok) /\ UNCHANGED <<scorerVars, cacheVars, pipeVars, auxVars>>
  \/ ContractRpcSucceeds /\ UNCHANGED <<scorerVars, cacheVars, pipeVars, auxVars>>
  \/ ContractRpcFails /\ UNCHANGED <<scorerVars, cacheVars, pipeVars, auxVars>>
  \/ Assemble /\ UNCHANGED <<scorerVars, cacheVars, pipeVars, auxVars>>

\* ------------------------------------------------------------------------
\* Per-user limiter (src/src/services/basescan.ts, class UserRateLimiter)
\* ------------------------------------------------------------------------
MaxQueries == 2
UserWindow == 2
MaxFids == 2

Fids == 1..MaxFids

NoCheck == [fid |-> 0, at |-> 0, allowed |-> FALSE, counted |-> 0]

inWindowMutInclusive(t, ts, window) == t - ts <= window

\* now - t < this.windowMs
inWindow(t, ts, window) == t - ts < window

userTimestampsMutKeepAll(q, fid, t) == q[fid]

\* (this.queries.get(fid) || []).filter((t) => now - t < this.windowMs)
userTimestamps(q, fid, t) == SelectSeq(q[fid], LAMBDA ts : inWindow(t, ts, UserWindow))

UserIdle ==
  /\ queries = [f \in Fids |-> <<>>]
  /\ userLog = [f \in Fids |-> <<>>]
  /\ lastCheck = NoCheck

InitUsers == UserIdle /\ now = 0 /\ cache = [k \in CacheKeys |-> NoEntry]
             /\ lastOp = NoOp /\ lastSet = [k \in CacheKeys |-> NoSet]

\* checkAndRecord(fid).  userLog keeps every allowed call of the identity and
\* lastCheck.counted tells how many of them fall in the window of this call.
checkAndRecord(fid) ==
  LET kept == userTimestamps(queries, fid, now)
      allowed == ~(Len(kept) >= MaxQueries)
      counted == Cardinality({i \in DOMAIN userLog[fid] : now - userLog[fid][i] < UserWindow})
  IN /\ queries' = IF allowed THEN [queries EXCEPT ![fid] = Append(kept, now)] ELSE queries
     /\ userLog' = IF allowed THEN [userLog EXCEPT ![fid] = Append(@, now)] ELSE userLog
     /\ lastCheck' = [fid |-> fid, at |-> now, allowed |-> allowed, counted |-> counted]
     /\ UNCHANGED <<now, cache, lastOp, lastSet>>

NextUsers ==
  \/ \E fid \in Fids : checkAndRecord(fid)
       /\ UNCHANGED <<scorerVars, rpcVars, fetchVars, pipeVars, slotVars, registryVars, textVars>>
  \/ Tick /\ UNCHANGED <<scorerVars, rpcVars, fetchVars, pipeVars, auxVars>>

\* ------------------------------------------------------------------------
\* Call limiter (src/src/services/basescan.ts, class RateLimiter)
\* Time is kept relative: a timestamp is stored as its age (now - t), in units
\* of 10 ms, and a timer as the time left until it is due.
\* ------------------------------------------------------------------------
MaxSlotCalls == 2
SlotWindow == 3
MaxWaiters == 2
\* the + 10 of waitTime, one unit
SlotSlack == 1

Waiters == 1..MaxWaiters

\* slept: the call in progress (or the last one) had to wait
IdleWaiter == [pc |-> "idle", timer |-> 0, slept |-> FALSE]

slotLiveMutEarly(age) == age < SlotWindow - 1

\* now - t < this.windowMs
slotLive(age) == age < SlotWindow

\* this.timestamps.filter((t) => now - t < this.windowMs)
liveTimestamps(ts) == SelectSeq(ts, slotLive)

\* this.windowMs - (now - oldestInWindow) + 10
waitTime(oldestAge) == SlotWindow - oldestAge + SlotSlack

SlotIdle ==
  /\ timestamps = <<>>
  /\ waiters = [w \in Waiters |-> IdleWaiter]
  /\ recent = <<>>

InitSlots == SlotIdle

\* one iteration of the loop of waitForSlot, up to the return or the await.
\* recent keeps the age of every slot granted less than a window ago.
slotIteration(w, slept) ==
  LET kept == liveTimestamps(timestamps)
  IN IF Len(kept) < MaxSlotCalls
     THEN /\ timestamps' = Append(kept, 0)
          /\ recent' = Append(recent, 0)
          /\ waiters' = [waiters EXCEPT ![w] = [pc |-> "granted", timer |-> 0,
                                                slept |-> slept]]
     ELSE /\ timestamps' = kept
          /\ recent' = recent
          /\ waiters' = [waiters EXCEPT ![w] = [pc |-> "sleeping",
                                                timer |-> waitTime(kept[1]),
                                                slept |-> TRUE]]

\* waitForSlot() is called (by a caller not waiting in an earlier call)
EnterSlot(w) ==
  /\ waiters[w].pc \in {"idle", "granted"}
  /\ slotIteration(w, FALSE)

\* the timer of a sleeping caller fires and its loop goes round
WakeSlot(w) ==
  /\ waiters[w].pc = "sleeping"
  /\ waiters[w].timer = 0
  /\ slotIteration(w, TRUE)

\* the clock advances by one unit; a timer that is due may fire late
TickSlot ==
  /\ timestamps' = [i \in DOMAIN timestamps |->
                      IF timestamps[i] < SlotWindow THEN timestamps[i] + 1 ELSE timestamps[i]]
  /\ recent' = SelectSeq([i \in DOMAIN recent |-> recent[i] + 1], LAMBDA a : a < SlotWindow)
  /\ waiters' = [w \in Waiters |->
                   [waiters[w] EXCEPT !.timer = IF @ > 0 THEN @ - 1 ELSE 0]]

NextSlots ==
  \/ \E w \in Waiters : EnterSlot(w)
       /\ UNCHANGED <<scorerVars, rpcVars, cacheVars, fetchVars, pipeVars, userVars, registryVars, textVars>>
  \/ \E w \in Waiters : WakeSlot(w)
       /\ UNCHANGED <<scorerVars, rpcVars, cacheVars, fetchVars, pipeVars, userVars, registryVars, textVars>>
  \/ TickSlot
       /\ UNCHANGED <<scorerVars, rpcVars, cacheVars, fetchVars, pipeVars, userVars, registryVars, textVars>>

\* the clock advances and every timer that is due fires
FairSlots ==
  /\ WF_vars(TickSlot /\ UNCHANGED <<scorerVars, rpcVars, cacheVars, fetchVars, pipeVars, userVars, registryVars, textVars>>)
  /\ \A w \in Waiters :
       WF_vars(WakeSlot(w) /\ UNCHANGED <<scorerVars, rpcVars, cacheVars, fetchVars, pipeVars, userVars, registryVars, textVars>>)

\* ------------------------------------------------------------------------
\* Calls of the scam registry (src/unnamed/part_007: seedLocalDb,
\* checkAddress, checkChainAbuse, batchCheckLocal)
\* ------------------------------------------------------------------------
MaxSeed == 2
MaxBatch == 2

\* const localScamDb = new Map()
EmptyDb == [k \in {} |-> ScamEntry]

ScamEntryNew == [category |-> "phishing", text |-> "Fake airdrop", mentions |-> {}]

\* addresses as callers write them, in either letter case
RegistryAddrs == {Addr(i, u) : i \in {1, 4, 5}, u \in BOOLEAN}

SeedEntries ==
  {[address |-> a, category |-> e.category, text |-> e.text, mentions |-> e.mentions] :
     a \in {Addr(i, u) : i \in {4, 5}, u \in BOOLEAN}, e \in {ScamEntry, ScamEntryNew}}

SeqsUpTo(S, n) == UNION {[1..k -> S] : k \in 0..n}

\* what the remote registry does: answers with reports, answers with a
\* payload that has no report list, answers with broken report items, or the
\* request throws (network error, timeout, non-2xx status)
\* what the GET of the remote registry does: a list of reports ("ok"), a body
\* without a report list ("noList"), a list holding null items ("nullItems"),
\* a list holding values that are no reports, such as numbers or strings
\* ("junkItems"), or a rejected request (network error, timeout, non-2xx)
RemoteOutcomes == {"ok", "noList", "nullItems", "junkItems", "network", "timeout", "status"}
RemoteFailures == {"nullItems", "junkItems", "network", "timeout", "status"}

NoRegistryOp ==
  [op |-> "none", addresses |-> <<>>, entries |-> <<>>, outcome |-> "ok",
   status |-> "none", flags |-> <<>>, pairs |-> <<>>, before |-> EmptyDb, seeded |-> {}]

RegistryIdle == registryOp = NoRegistryOp

RECURSIVE seedLocalDbMutKeepCase(_, _)
seedLocalDbMutKeepCase(db, entries) ==
  IF entries = <<>> THEN db
  ELSE LET entry == Head(entries)
           stored == [category |-> entry.category, text |-> entry.text,
                      mentions |-> entry.mentions]
           db2 == [k \in DOMAIN db \cup {entry.address} |->
                     IF k = entry.address THEN stored ELSE db[k]]
       IN seedLocalDbMutKeepCase(db2, Tail(entries))

\* seedLocalDb: localScamDb.set(entry.address.toLowerCase(), {category, description})
RECURSIVE seedLocalDb(_, _)
seedLocalDb(db, entries) ==
  IF entries = <<>> THEN db
  ELSE LET entry == Head(entries)
           key == toLowerCase(entry.address)
           stored == [category |-> entry.category, text |-> entry.text,
                      mentions |-> entry.mentions]
           db2 == [k \in DOMAIN db \cup {key} |-> IF k = key THEN stored ELSE db[k]]
       IN seedLocalDb(db2, Tail(entries))

\* checkChainAbuse: the mapped reports, or [] when there is no report list or
\* when anything inside its try block throws (a rejected request, a property
\* read on a null item). An item that is no report has no category and no
\* description, so report.category || 'scam' maps it to the default flag.
checkChainAbuse(outcome, reports) ==
  CASE outcome = "ok" -> reports
    [] outcome = "junkItems" -> [i \in DOMAIN reports |-> ChainAbuseFlag]
    [] OTHER -> <<>>

InitRegistry ==
  /\ localScamDb = EmptyDb
  /\ fetch = IdleFetch
  /\ RegistryIdle

SeedLocalDb(entries) ==
  /\ localScamDb' = seedLocalDb(localScamDb, entries)
  /\ registryOp' = [NoRegistryOp EXCEPT !.op = "seed", !.entries = entries,
                      !.status = "returned", !.before = localScamDb,
                      !.seeded = registryOp.seeded \cup
                                 {Addr(entries[i].address.id, FALSE) : i \in DOMAIN entries}]
  /\ UNCHANGED fetch

\* checkAddress(address) with the remote registry behaving as `outcome'
CheckAddress(address, outcome) ==
  /\ registryOp' = [NoRegistryOp EXCEPT !.op = "check", !.addresses = <<address>>,
                      !.outcome = outcome, !.status = "fulfilled",
                      !.flags = checkAddress(localScamDb, address, TRUE,
                                             checkChainAbuse(outcome, <<ChainAbuseFlag>>)),
                      !.before = localScamDb, !.seeded = registryOp.seeded]
  /\ UNCHANGED <<localScamDb, fetch>>

BatchCheckLocal(addresses) ==
  /\ registryOp' = [NoRegistryOp EXCEPT !.op = "batch", !.addresses = addresses,
                      !.status = "returned",
                      !.pairs = batchCheckLocal(localScamDb, addresses),
                      !.before = localScamDb, !.seeded = registryOp.seeded]
  /\ UNCHANGED <<localScamDb, fetch>>

NextRegistry ==
  \/ \E entries \in SeqsUpTo(SeedEntries, MaxSeed) : SeedLocalDb(entries)
       /\ UNCHANGED <<scorerVars, rpcVars, cacheVars, pipeVars, userVars, slotVars, textVars>>
  \/ \E a \in RegistryAddrs, o \in RemoteOutcomes : CheckAddress(a, o)
       /\ UNCHANGED <<scorerVars, rpcVars, cacheVars, pipeVars, userVars, slotVars, textVars>>
  \/ \E addresses \in SeqsUpTo(RegistryAddrs, MaxBatch) : BatchCheckLocal(addresses)
       /\ UNCHANGED <<scorerVars, rpcVars, cacheVars, pipeVars, userVars, slotVars, textVars>>

\* ------------------------------------------------------------------------
\* Report text (src/unnamed/part_007: validateAiOutput, formatForCast,
\* truncateToByteLimit)
\* ------------------------------------------------------------------------
\* A summary is a sequence of tokens: words, address-shaped tokens (0x and 40
\* hex digits, in the letter case they were written) and the redaction marker.
MaxSummaryTokens == 3

Word == [kind |-> "word", addr |-> NoAddr]
AddrToken(a) == [kind |-> "addr", addr |-> a]
\* '[address removed]'
RedactionMarker == [kind |-> "marker", addr |-> NoAddr]

Invented == Addr(6, FALSE)
InventedToo == Addr(7, TRUE)

SummaryTokens ==
  {Word, AddrToken(Self), AddrToken(Other), AddrToken(Invented), AddrToken(InventedToo)}

\* text.match(/0x[a-fA-F0-9]{40}/g) || []
addressMentions(text) == SelectSeq(text, LAMBDA tok : tok.kind = "addr")

\* the verified fact set of validateAiOutput
knownAddresses(d) ==
  {toLowerCase(d.address)}
    \cup {toLowerCase(d.transactions[i].from) : i \in DOMAIN d.transactions}
    \cup {toLowerCase(d.transactions[i].to) : i \in DOMAIN d.transactions}

\* text.replace(addr, '[address removed]'): the first occurrence only
replaceFirst(text, a) ==
  IF \E i \in DOMAIN text : text[i] = AddrToken(a)
  THEN LET first == CHOOSE i \in DOMAIN text :
                       /\ text[i] = AddrToken(a)
                       /\ \A j \in 1..(i - 1) : text[j] # AddrToken(a)
       IN [text EXCEPT ![first] = RedactionMarker]
  ELSE text

\* validateAiOutput: the loop returns at the first mention that is not known
validateAiOutput(text, d) ==
  LET mentions == addressMentions(text)
      unknown == {i \in DOMAIN mentions : toLowerCase(mentions[i].addr) \notin knownAddresses(d)}
  IN IF unknown = {} THEN text
     ELSE LET first == CHOOSE i \in unknown : \A j \in unknown : i <= j
          IN replaceFirst(text, mentions[first].addr)

\* A rendered text is a sequence of UTF-16 code units, each of a kind: "a" an
\* ASCII character, "n" a newline, "w" a character of three UTF-8 bytes, "h"
\* and "l" the two halves of a surrogate pair (four bytes together, three
\* bytes each when unpaired: TextEncoder writes U+FFFD), and "d" / "D" the one-
\* and three-byte characters of the disclaimer.
maxSummaryLen == 300
maxReportLength == 1024
TruncateStep == 10
\* the lengths of the inputs that are "long"
LongSummary == 1100
LongLine == 400

Rep(c, n) == [i \in 1..n |-> c]
Pairs(n) == [i \in 1..n |-> IF i % 2 = 1 THEN "h" ELSE "l"]

\* the bytes TextEncoder writes for code unit i of text
unitBytes(text, i) ==
  CASE text[i] \in {"a", "n", "d"} -> 1
    [] text[i] \in {"w", "D"} -> 3
    [] text[i] = "h" -> IF i < Len(text) /\ text[i + 1] = "l" THEN 4 ELSE 3
    [] text[i] = "l" -> IF i > 1 /\ text[i - 1] = "h" THEN 0 ELSE 3

\* encoder.encode(text).length: the sum of unitBytes, which is one byte for
\* every code unit and two more for every unit of three bytes and for every
\* pair (a paired low half counts 0 and its high half 4)
utf8Length(text) ==
  Len(text) + 2 * Cardinality({i \in DOMAIN text :
                                 unitBytes(text, i) = 3
                                   \/ (unitBytes(text, i) = 4 /\ text[i] = "h")})

\* config.disclaimer
Disclaimer == <<"D", "D">> \o Rep("d", 84) \o <<"D">> \o Rep("d", 6)

\* text.slice(0, k) and text.slice(0, -k)
sliceTo(text, k) == SubSeq(text, 1, IF k < Len(text) THEN k ELSE Len(text))
sliceOffMutFront(text, k) == SubSeq(text, k + 1, Len(text))

sliceOff(text, k) == SubSeq(text, 1, Len(text) - k)

\* text.lastIndexOf('\n'), 0-based, -1 when there is none
lastIndexOfNewline(text) ==
  IF \E i \in DOMAIN text : text[i] = "n"
  THEN (CHOOSE i \in DOMAIN text :
          text[i] = "n" /\ \A j \in (i + 1)..Len(text) : text[j] # "n") - 1
  ELSE -1

\* the loop of truncateToByteLimit
RECURSIVE trimToBytes(_, _)
trimToBytes(text, availableBytes) ==
  IF utf8Length(text) > availableBytes
  THEN trimToBytes(sliceOff(text, TruncateStep), availableBytes)
  ELSE text

availableBytesMutNoReserve(maxBytes, disclaimerBytes) == maxBytes - 3

\* maxBytes - disclaimerBytes - 3
availableBytesOf(maxBytes, disclaimerBytes) == maxBytes - disclaimerBytes - 3

truncateToByteLimit(text, maxBytes) ==
  LET disclaimer == <<"n", "n">> \o Disclaimer
      availableBytes == availableBytesOf(maxBytes, utf8Length(disclaimer))
      truncated == trimToBytes(text, availableBytes)
      lastNewline == lastIndexOfNewline(truncated)
      \* lastNewline > truncated.length * 0.7
      cut == IF lastNewline * 10 > Len(truncated) * 7
             THEN sliceTo(truncated, lastNewline) ELSE truncated
  IN cut \o Rep("a", 3) \o disclaimer

\* list.map(line).join('\n')
RECURSIVE joinLines(_)
joinLines(lines) ==
  IF lines = <<>> THEN <<>>
  ELSE IF Len(lines) = 1 THEN lines[1]
  ELSE lines[1] \o <<"n">> \o joinLines(Tail(lines))

\* shortenAddress: 0x, four characters, three dots, four characters
shortenAddress == Rep("a", 13)

digitsOf(number) == IF number >= 100 THEN 3 ELSE IF number >= 10 THEN 2 ELSE 1

\* the cast assembled before the disclaimer is appended
castBody(report) ==
  LET header == <<"h", "l">> \o Rep("a", 15) \o <<"w">> \o Rep("a", 14) \o <<"n", "n">>
      addrLine == <<"h", "l", "a">> \o shortenAddress \o Rep("a", 7) \o <<"n">>
      riskLine == <<"h", "l", "a">> \o Rep("a", Len(report.riskLevel)) \o Rep("a", 7)
                    \o Rep("a", digitsOf(report.riskScore)) \o Rep("a", 5) \o <<"n", "n">>
      summary == IF Len(report.summary) > maxSummaryLen
                 THEN sliceTo(report.summary, maxSummaryLen - 3) \o Rep("a", 3)
                 ELSE report.summary
      findings == IF Len(report.keyFindings) > 0
                  THEN joinLines([i \in DOMAIN sliceTo(report.keyFindings, 3) |->
                                    <<"w", "a">> \o report.keyFindings[i]]) \o <<"n", "n">>
                  ELSE <<>>
      interactions ==
        IF Len(report.topInteractions) > 0
        THEN joinLines([i \in DOMAIN sliceTo(report.topInteractions, 2) |->
               <<"w", "a">>
                 \o (IF report.topInteractions[i].label # <<>>
                     THEN report.topInteractions[i].label ELSE shortenAddress)
                 \o Rep("a", 2) \o Rep("a", digitsOf(report.topInteractions[i].txCount))
                 \o Rep("a", 5)]) \o <<"n", "n">>
        ELSE <<>>
  IN header \o addrLine \o riskLine \o summary \o <<"n", "n">> \o findings \o interactions

formatForCast(report) ==
  LET cast == castBody(report) \o report.disclaimer
  IN IF utf8Length(cast) > maxReportLength
     THEN truncateToByteLimit(cast, maxReportLength)
     ELSE cast

\* the reports handed to the formatter
Summaries ==
  {Rep(c, n) : c \in {"a", "w"}, n \in {0, maxSummaryLen, maxSummaryLen + 1, LongSummary}}
    \cup {Pairs(n) : n \in {maxSummaryLen, maxSummaryLen + 1, LongSummary}}

FindingLists ==
  {<<>>, <<Rep("a", 20)>>, <<Rep("a", 20), Rep("w", 20), Rep("a", 20), Rep("a", 20)>>,
   <<Rep("a", LongLine), Rep("a", LongLine), Rep("a", LongLine)>>,
   <<Rep("w", LongLine), Pairs(LongLine)>>}

InteractionLists ==
  {<<>>, <<[label |-> <<>>, txCount |-> 12]>>,
   <<[label |-> Rep("a", 12), txCount |-> 120], [label |-> <<>>, txCount |-> 3],
     [label |-> Rep("a", 12), txCount |-> 1]>>,
   <<[label |-> Rep("w", LongLine), txCount |-> 7], [label |-> Pairs(LongLine), txCount |-> 7]>>}

FormatReports ==
  {[riskLevel |-> lv.level, riskScore |-> lv.score, summary |-> sm, keyFindings |-> kf,
    topInteractions |-> ti, disclaimer |-> Disclaimer] :
     lv \in {[level |-> "LOW", score |-> 7], [level |-> "MEDIUM", score |-> 45],
             [level |-> "HIGH", score |-> 100]},
     sm \in Summaries, kf \in FindingLists, ti \in InteractionLists}

NoDoc ==
  [op |-> "none",
   report |-> [riskLevel |-> "LOW", riskScore |-> 0, summary |-> <<>>, keyFindings |-> <<>>,
               topInteractions |-> <<>>, disclaimer |-> Disclaimer],
   cast |-> <<>>, text |-> <<>>, transactions |-> <<>>, clean |-> <<>>]

TextIdle == doc = NoDoc

\* the report to render, or the summary to validate and the transactions of
\* the snapshot it was generated from
InitText ==
  \/ \E report \in FormatReports : doc = [NoDoc EXCEPT !.op = "toFormat", !.report = report]
  \/ \E text \in SeqsUpTo(SummaryTokens, MaxSummaryTokens), txs \in {<<>>, <<TxOutOther>>} :
       doc = [NoDoc EXCEPT !.op = "toValidate", !.text = text, !.transactions = txs]

FormatForCast ==
  /\ doc.op = "toFormat"
  /\ doc' = [doc EXCEPT !.op = "format", !.cast = formatForCast(doc.report)]

\* the snapshot validateAiOutput is given
docData == [NoData EXCEPT !.address = Self, !.transactions = doc.transactions]

ValidateAiOutput ==
  /\ doc.op = "toValidate"
  /\ doc' = [doc EXCEPT !.op = "validate", !.clean = validateAiOutput(doc.text, docData)]

NextText ==
  \/ FormatForCast
       /\ UNCHANGED <<scorerVars, rpcVars, cacheVars, fetchVars, pipeVars, userVars, slotVars, registryVars>>
  \/ ValidateAiOutput
       /\ UNCHANGED <<scorerVars, rpcVars, cacheVars, fetchVars, pipeVars, userVars, slotVars, registryVars>>

\* ------------------------------------------------------------------------
\* Specifications
\* ------------------------------------------------------------------------
AuxIdle == UserIdle /\ SlotIdle /\ RegistryIdle /\ TextIdle

InitSpecUsers == InitUsers /\ ScorerIdle /\ RpcIdle /\ FetchIdle /\ PipeIdle
                 /\ SlotIdle /\ RegistryIdle /\ TextIdle

SpecUsers == InitSpecUsers /\ [][NextUsers]_vars

InitSpecSlots == InitSlots /\ ScorerIdle /\ RpcIdle /\ CacheIdle /\ FetchIdle /\ PipeIdle
                 /\ UserIdle /\ RegistryIdle /\ TextIdle

SpecSlots == InitSpecSlots /\ [][NextSlots]_vars

SpecSlotsFair == InitSpecSlots /\ [][NextSlots]_vars /\ FairSlots

InitSpecRegistry == InitRegistry /\ ScorerIdle /\ RpcIdle /\ CacheIdle /\ PipeIdle
                    /\ UserIdle /\ SlotIdle /\ TextIdle

SpecRegistry == InitSpecRegistry /\ [][NextRegistry]_vars

InitSpecText == InitText /\ ScorerIdle /\ RpcIdle /\ CacheIdle /\ FetchIdle /\ PipeIdle
                /\ UserIdle /\ SlotIdle /\ RegistryIdle

SpecText == InitSpecText /\ [][NextText]_vars

\* the whole program at the start: this part as constructed, the others at rest
InitSpecFetch == InitFetch /\ ScorerIdle /\ PipeIdle /\ AuxIdle

SpecFetch == InitSpecFetch /\ [][NextFetch]_vars

\* the whole program at the start: this part as constructed, the others at rest
InitSpecPipeline == InitPipeline /\ ScorerIdle /\ RpcIdle /\ FetchIdle /\ AuxIdle

SpecPipeline == InitSpecPipeline /\ [][NextPipeline]_vars

\* the whole program at the start: this part as constructed, the others at rest
InitSpecCache == InitCache /\ ScorerIdle /\ RpcIdle /\ FetchIdle /\ PipeIdle /\ AuxIdle

SpecCache == InitSpecCache /\ [][NextCache]_vars

\* the whole program at the start: this part as constructed, the others at rest
InitSpecRpc == InitRpc /\ ScorerIdle /\ CacheIdle /\ FetchIdle /\ PipeIdle /\ AuxIdle

SpecRpc == InitSpecRpc /\ [][NextRpc]_vars

SpecRotator == InitSpecRpc /\ [][NextRotator]_vars

\* ------------------------------------------------------------------------
\* Scoring specification
\* ------------------------------------------------------------------------
InitScore ==
  /\ \E age \in AgeSamples, n \in TxCountSamples, flags \in FlagLists,
        txs \in TxLists, toks \in TokenLists :
       data = [NoData EXCEPT !.transactionCount = n, !.transactions = txs,
                             !.tokenTransfers = toks, !.accountAge = age,
                             !.firstTxTimestamp = IF age = NULL THEN NULL ELSE 1,
                             !.scamFlags = flags]
  /\ result = NoResult

Score ==
  /\ result = NoResult
  /\ result' = computeRiskScore(data)
  /\ UNCHANGED data

NextScore == Score /\ UNCHANGED <<rpcVars, cacheVars, fetchVars, pipeVars, auxVars>>

\* the whole program at the start: this part as constructed, the others at rest
InitSpecScore == InitScore /\ RpcIdle /\ CacheIdle /\ FetchIdle /\ PipeIdle /\ AuxIdle

SpecScore == InitSpecScore /\ [][NextScore]_vars

\* ------------------------------------------------------------------------
\* Properties of the scoring engine (SpecScore)
\* ------------------------------------------------------------------------
Scored == result # NoResult

SignalNames == <<"Account Age", "Transaction Volume", "Scam Database",
                 "Large Transfers", "Contract Approvals", "Funding Source",
                 "Token Diversity">>
SignalWeights == <<10, 15, 25, 15, 15, 10, 10>>

\* C1: computeRiskScore returns exactly seven signals, with the seven fixed
\* names and the weights 0.10, 0.15, 0.25, 0.15, 0.15, 0.10, 0.10 (hundredths
\* here) that sum to 1.0, and an integer score between 0 and 100.
C1_SevenSignalsBoundedScore ==
  Scored =>
    /\ Len(result.signals) = 7
    /\ [i \in 1..7 |-> result.signals[i].name] = SignalNames
    /\ [i \in 1..7 |-> result.signals[i].weight] = SignalWeights
    /\ SumSeq([i \in 1..7 |-> result.signals[i].weight]) = 100
    /\ result.score \in 0..100

\* the weighted total rounds to more than 100, so the clamp has acted
C1_Witness == Scored /\ MathRound100(weightedTotal(data)) > 100 /\ result.score = 100

\* C2: every snapshot with three or more scam flags is scored HIGH with a
\* score above 60, whatever its other fields are.
C2_ThreeFlagsAlwaysHigh ==
  (Scored /\ Len(data.scamFlags) >= 3) => (result.level = "HIGH" /\ result.score > 60)

ExactlyOneMixerFlag(d) == Len(d.scamFlags) = 1 /\ d.scamFlags[1].category = "mixer"
AgeAtLeastSevenDays(d) == d.accountAge # NULL /\ d.accountAge >= 7 * SecondsPerDay

\* C3 (as stated): every snapshot with exactly one scam flag, of category
\* mixer, and an account age of at least 7 days is scored MEDIUM, whatever
\* its other fields are.
C3_OneMixerFlagAlwaysMedium ==
  (Scored /\ ExactlyOneMixerFlag(data) /\ AgeAtLeastSevenDays(data))
    => (result.level = "MEDIUM" /\ result.score > 30 /\ result.score <= 60)

\* C3 (amended): every snapshot with exactly one scam flag, of category
\* mixer, an account age of at least 7 days and an empty transaction list is
\* scored MEDIUM with 30 < score <= 60, whatever its transaction count and
\* token transfers are.
C3_OneMixerFlagNoTxsMedium ==
  (Scored /\ ExactlyOneMixerFlag(data) /\ AgeAtLeastSevenDays(data)
          /\ data.transactions = <<>>)
    => (result.level = "MEDIUM" /\ result.score > 30 /\ result.score <= 60)

C3_Witness ==
  /\ Scored /\ ExactlyOneMixerFlag(data) /\ AgeAtLeastSevenDays(data)
  /\ data.transactions = <<>> /\ result.score = 31 /\ result.level = "MEDIUM"

\* C4: the tier is a function of the clamped score alone: LOW exactly when
\* score <= 30, MEDIUM exactly when 30 < score <= 60, HIGH exactly when
\* score > 60 (so a higher score never has a lower tier).
C4_TierFromScore ==
  Scored =>
    /\ result.level = "LOW" <=> result.score <= 30
    /\ result.level = "MEDIUM" <=> (result.score > 30 /\ result.score <= 60)
    /\ result.level = "HIGH" <=> result.score > 60

C4_Witness == Scored /\ result.score = 30 /\ result.level = "LOW"

\* ------------------------------------------------------------------------
\* Properties of the provider rotator (SpecRpc)
\* ------------------------------------------------------------------------
Providers == 0..(providerCount - 1)

C6_Bounded ==
  \A c \in CallIds :
    /\ calls[c].attempts <= providerCount
    /\ calls[c].pc = "returned" =>
         /\ calls[c].value = calls[c].client
         /\ Cardinality(calls[c].failed) <= calls[c].attempts - 1
         /\ calls[c].attempt = calls[c].attempts - 1
    /\ calls[c].pc = "thrown" <=> calls[c].attempt = providerCount
    /\ calls[c].pc = "thrown" => calls[c].attempts = providerCount

C6_Step ==
  \A c \in CallIds :
    \* a failed attempt rotates the provider and drops the cached client's endpoint
    /\ calls'[c].attempt = calls[c].attempt + 1 =>
         /\ activeProviderIndex' = (activeProviderIndex + 1) % providerCount
         /\ activeClient' \in {NoClient, activeProviderIndex'}
         /\ calls'[c].pc = "await" => calls'[c].client = activeProviderIndex'
    \* a call that has returned makes no further attempt
    /\ (calls[c].pc = "returned" /\ calls'[c].pc = "returned") => calls'[c] = calls[c]
    /\ (calls[c].pc = "await" /\ calls'[c].pc = "returned") =>
         calls'[c].attempts = calls[c].attempts

\* C6: one withFallback call makes at most providerCount attempts, rotates the
\* provider after each failed attempt, returns the value of the first attempt
\* that succeeds without attempting again, and throws the terminal error
\* exactly when providerCount attempts have failed.
C6_WithFallbackBounded == [](C6_Bounded) /\ [][C6_Step]_vars

\* a call that failed on every attempt but the last one, which succeeded
C6_Witness ==
  \E c \in CallIds : /\ providerCount = MaxProviders
                     /\ calls[c].pc = "returned"
                     /\ calls[c].attempts = providerCount

\* C7: withFallback throws the provider-exhausted error only when every
\* configured provider has been attempted by that call and has failed for it,
\* also with several calls in flight.
C7_ThrowOnlyWhenAllProvidersFailed ==
  \A c \in CallIds : calls[c].pc = "thrown" => calls[c].failed = Providers

\* ------------------------------------------------------------------------
\* Properties of the expiring cache (SpecCache)
\* ------------------------------------------------------------------------
LastGet == lastOp.op = "get"
LastGetSet == lastSet[lastOp.key]

\* C8: get(key) never returns a value once the current time is greater than
\* the entry's expiry (time of its set plus the ttl), however long the entry
\* sat unaccessed; it then returns absent and removes the entry.
C8_NeverReturnedAfterExpiry ==
  LastGet =>
    /\ lastOp.ret.defined => (LastGetSet.done /\ lastOp.at <= LastGetSet.at + CacheTtl)
    /\ (LastGetSet.done /\ lastOp.at > LastGetSet.at + CacheTtl) =>
         (~lastOp.ret.defined /\ ~cache[lastOp.key].present)

\* a get long after the expiry of an entry
C8_Witness ==
  /\ LastGet /\ LastGetSet.done /\ lastOp.at > LastGetSet.at + CacheTtl + 1
  /\ ~lastOp.ret.defined /\ ~cache[lastOp.key].present

\* C9: after set(key, v), every get(key) made while now <= time of that set
\* + ttl and before a later set of the key or a clear returns exactly v; a
\* later set(key, w) replaces the entry: get returns w and the expiry is
\* counted from the later set.
C9_RoundTrip ==
  (LastGet /\ LastGetSet.done /\ lastOp.at <= LastGetSet.at + CacheTtl) =>
     (lastOp.ret.defined /\ lastOp.ret.value = LastGetSet.value)

\* a get at the very expiry time of a replacing set, after the replaced
\* entry's own expiry
C9_Witness ==
  /\ LastGet /\ LastGetSet.done /\ LastGetSet.replaced
  /\ lastOp.at = LastGetSet.at + CacheTtl
  /\ lastOp.at > LastGetSet.prevAt + CacheTtl
  /\ lastOp.ret.defined /\ lastOp.ret.value = LastGetSet.value

\* ------------------------------------------------------------------------
\* Properties of the data aggregator (SpecFetch)
\* ------------------------------------------------------------------------
SourceOk(b) == fetch.br[b] = "ok"

DirectFlags ==
  localFlagsOf(localScamDb, fetch.address)
    \o (IF SourceOk("scam") THEN fetch.world.remoteFlags ELSE <<>>)

C5_Snapshot ==
  LET snap == fetch.snapshot
      w == fetch.world
  IN /\ snap.address = fetch.address
     /\ snap.transactions = IF SourceOk("transactions") THEN w.txs ELSE <<>>
     /\ snap.transactionCount = Len(snap.transactions)
     /\ snap.internalTransactions = IF SourceOk("internal") THEN w.internal ELSE <<>>
     /\ snap.tokenTransfers = IF SourceOk("tokens") THEN w.tokens ELSE <<>>
     /\ snap.balance = IF fetch.balance.primary = "ok" /\ w.balance # 0 THEN w.balance
                       ELSE IF fetch.balance.rpc = "ok" THEN w.rpcBalance
                       ELSE 0
     /\ snap.isContract = IF fetch.contract.primary = "ok" /\ w.isContract THEN TRUE
                          ELSE IF fetch.contract.rpc = "ok" THEN w.rpcIsContract
                          ELSE FALSE
     /\ Len(snap.scamFlags) >= Len(DirectFlags)
     /\ SubSeq(snap.scamFlags, 1, Len(DirectFlags)) = DirectFlags
     /\ \A i \in (Len(DirectFlags) + 1)..Len(snap.scamFlags) :
          /\ snap.scamFlags[i].text = "Interacted with flagged address"
          /\ snap.scamFlags[i].source = "local"
     /\ (SourceOk("firstTx") /\ w.firstTx.present) =>
          snap.firstTxTimestamp = w.firstTx.timeStamp
     /\ (~SourceOk("firstTx") /\ ~SourceOk("transactions") /\ ~SourceOk("internal")) =>
          (snap.firstTxTimestamp = NULL /\ snap.accountAge = NULL)

\* C5: fetchWalletData always completes with a snapshot, whichever of its
\* seven sources fail: a failed branch contributes its default (empty list,
\* zero balance, false contract flag, no remote scam flags, null first
\* transaction) and the branches that succeeded contribute their own values.
C5_FetchDegradesPerBranch ==
  /\ fetch.pc # "rejected"
  /\ (fetch.pc = "running" /\ AllSettled) =>
       LET s == settledPromises(fetch, localScamDb)
       IN joinAll([b \in DOMAIN s |-> s[b].status]) = "done"
  /\ fetch.pc = "done" => C5_Snapshot

\* some sources failed (one of them by rejecting, one by exhausting the
\* providers) and the others answered
C5_Witness ==
  /\ fetch.pc = "done"
  /\ SourceOk("transactions") /\ SourceOk("scam")
  /\ fetch.br["tokens"] = "failed" /\ fetch.br["firstTx"] = "rejected"
  /\ fetch.balance.rpc = "exhausted" /\ fetch.contract.rpc = "ok"
  /\ fetch.snapshot.transactions # <<>> /\ fetch.snapshot.tokenTransfers = <<>>
  /\ fetch.snapshot.balance = 0 /\ fetch.snapshot.isContract

\* ------------------------------------------------------------------------
\* Properties of the request pipeline (SpecPipeline)
\* ------------------------------------------------------------------------
Fresh(key) == cache[key].present /\ now <= cache[key].expiresAt

C10_State ==
  \A r \in ReqIds :
    \* a request served from the cache ran no pipeline step
    /\ requests[r].hit => (requests[r].ran = {} /\ requests[r].report # NoReport)
    \* a report is handed back only from the cache or from a full pipeline run
    /\ (requests[r].pc \in {"posting", "postCached"}
          \/ (requests[r].pc = "done" /\ requests[r].report # NoReport)) =>
         (requests[r].hit \/ requests[r].ran = {"fetch", "score", "generate"})

C10_Step ==
  \A r \in ReqIds :
    \* the cache check: a hit exactly when a non-expired report is cached
    \* under the address, and then that report is the one handed back
    /\ (requests[r].pc = "idle" /\ requests'[r].pc \notin {"idle", "postInvalid"}
          /\ requests'[r].address # NoAddr) =>
         /\ requests'[r].hit <=> Fresh(requests'[r].address)
         /\ requests'[r].hit => /\ cache[requests'[r].address].present
                                /\ requests'[r].report = cache[requests'[r].address].value
    \* pipeline steps run only for a request whose check missed
    /\ requests'[r].ran # requests[r].ran => ~requests'[r].hit
    \* a successful run stores its report under the address as it returns
    /\ (requests[r].pc = "generating" /\ requests'[r].pc \in {"posting", "done"}
          /\ requests'[r].report # NoReport) =>
         /\ cache'[requests[r].address].present
         /\ cache'[requests[r].address].value = requests[r].report
         /\ cache'[requests[r].address].expiresAt = now + CacheTtl

\* C10: the pipeline runs only on a cache miss: a cached, non-expired report
\* is returned without any fetch, scoring or generation step; a successful
\* run stores its report under the address before returning it, so that a
\* repeated request within the TTL is served from the cache.
C10_PipelineOnlyOnMiss == [](C10_State) /\ [][C10_Step]_vars

\* a request served, after the clock advanced, with the report that another
\* request's pipeline run stored
C10_Witness ==
  \E r \in ReqIds :
    /\ requests[r].pc = "done" /\ requests[r].hit
    /\ requests[r].report.by # r
    /\ requests[r].report.address = requests[r].address
    /\ now > 0

\* ------------------------------------------------------------------------
\* Properties of the per-user limiter (SpecUsers)
\* ------------------------------------------------------------------------
\* C11: checkAndRecord(identity) at time t is allowed exactly when fewer than
\* MaxQueries earlier allowed calls of the same identity have a timestamp ts
\* with t - ts < window (so the outcome depends on no other identity), and no
\* identity ever has more than MaxQueries allowed calls inside one window.
C11_AllowedWithinQuota ==
  /\ lastCheck.fid # 0 => (lastCheck.allowed <=> lastCheck.counted < MaxQueries)
  /\ \A f \in Fids : \A t \in 0..now :
       Cardinality({i \in DOMAIN userLog[f] :
                      userLog[f][i] <= t /\ t - userLog[f][i] < UserWindow}) <= MaxQueries

\* an identity that used its quota, was allowed again after the window, used
\* the quota again and is now denied, at an instant where the other identity
\* is allowed
C11_Witness ==
  /\ lastCheck.fid = 1 /\ ~lastCheck.allowed /\ lastCheck.counted = MaxQueries
  /\ Len(userLog[1]) = 2 * MaxQueries
  /\ userLog[2] # <<>> /\ userLog[2][Len(userLog[2])] = lastCheck.at

\* ------------------------------------------------------------------------
\* Properties of the call limiter (SpecSlots, SpecSlotsFair)
\* ------------------------------------------------------------------------
\* C12: whatever the number of concurrent callers of waitForSlot, the number
\* of slots granted less than a window ago (the newest grant included) never
\* exceeds maxCalls.
C12_AtMostMaxCallsPerWindow ==
  /\ Len(recent) <= MaxSlotCalls
  /\ \A i \in DOMAIN recent : recent[i] < SlotWindow

\* a caller that had to wait is granted the last free slot of the window
C12_Witness ==
  \E w \in Waiters :
    /\ waiters[w].pc = "granted" /\ waiters[w].slept
    /\ Len(recent) = MaxSlotCalls /\ recent[Len(recent)] = 0
    /\ \E v \in Waiters : waiters[v].pc = "sleeping"

\* C13: every call of waitForSlot is eventually granted a slot, whatever the
\* number of concurrent callers and of later calls, given that the clock
\* advances and that timers that are due fire.
C13_EveryCallGranted ==
  \A w \in Waiters : (waiters[w].pc = "sleeping") ~> (waiters[w].pc = "granted")

\* ------------------------------------------------------------------------
\* Properties of the scam registry (SpecRegistry)
\* ------------------------------------------------------------------------
Lower(a) == Addr(a.id, FALSE)
Listed(a) == Lower(a) \in DOMAIN registryOp.before
Whitelisted(a) == a.id = Usdc.id
BatchInput == {registryOp.addresses[i] : i \in DOMAIN registryOp.addresses}
BatchOutput == {registryOp.pairs[i].addr : i \in DOMAIN registryOp.pairs}

\* C14: batchCheckLocal returns no entry for a whitelisted address, in any
\* letter case, even when the local table lists it; for the other addresses
\* it returns one entry, a local flag, exactly for those the table lists and
\* nothing for the rest.
C14_BatchSkipsWhitelist ==
  registryOp.op = "batch" =>
    /\ \A a \in BatchOutput : ~Whitelisted(a)
    /\ \A a \in BatchInput : ~Whitelisted(a) => (a \in BatchOutput <=> Listed(a))
    /\ BatchOutput \subseteq BatchInput
    /\ Cardinality(BatchOutput) = Len(registryOp.pairs)
    /\ \A i \in DOMAIN registryOp.pairs :
         LET pair == registryOp.pairs[i]
         IN /\ pair.flag.source = "local"
            /\ pair.flag.category = registryOp.before[Lower(pair.addr)].category
            /\ pair.flag.text = registryOp.before[Lower(pair.addr)].text

\* a batch with a whitelisted address written in upper case that the table
\* lists, and a listed address that is returned
C14_Witness ==
  /\ registryOp.op = "batch"
  /\ Addr(Usdc.id, TRUE) \in BatchInput /\ Usdc \in DOMAIN registryOp.before
  /\ BatchOutput = {Addr(Scammer.id, TRUE)}

CheckedAddress == registryOp.addresses[1]

\* C15: checkAddress always completes; when the remote registry call fails
\* (network error, timeout, non-2xx status, malformed payload) it returns
\* exactly the local flags of the lowercased address: one flag with source
\* 'local' if the table lists it, none otherwise.
C15_CheckAddressNeverFails ==
  (registryOp.op = "check" /\ registryOp.outcome \in RemoteFailures) =>
    /\ registryOp.status = "fulfilled"
    /\ registryOp.flags =
         IF Listed(CheckedAddress)
         THEN << [source |-> "local",
                  category |-> registryOp.before[Lower(CheckedAddress)].category,
                  text |-> registryOp.before[Lower(CheckedAddress)].text,
                  mentions |-> registryOp.before[Lower(CheckedAddress)].mentions] >>
         ELSE <<>>

SeedInput == {Lower(registryOp.entries[i].address) : i \in DOMAIN registryOp.entries}
LastSeedOf(k) ==
  registryOp.entries[CHOOSE i \in DOMAIN registryOp.entries :
     /\ Lower(registryOp.entries[i].address) = k
     /\ \A j \in DOMAIN registryOp.entries :
          Lower(registryOp.entries[j].address) = k => j <= i]

\* C16: seedLocalDb stores every entry under its lowercase address; seeding
\* the same entries again changes nothing, an entry for a present address
\* overwrites it, new addresses are added; the table size is the number of
\* distinct lowercase addresses seeded and lookups succeed in any letter case.
C16_SeedNormalisesAndIsIdempotent ==
  /\ DOMAIN localScamDb = registryOp.seeded
  /\ Cardinality(DOMAIN localScamDb) = Cardinality(registryOp.seeded)
  /\ \A k \in registryOp.seeded : \A u \in BOOLEAN :
       /\ ~k.upper
       /\ localFlagsOf(localScamDb, Addr(k.id, u)) # <<>>
  /\ registryOp.op = "seed" =>
       /\ DOMAIN localScamDb = DOMAIN registryOp.before \cup SeedInput
       /\ \A k \in SeedInput :
            /\ localScamDb[k].category = LastSeedOf(k).category
            /\ localScamDb[k].text = LastSeedOf(k).text
       /\ \A k \in DOMAIN registryOp.before \ SeedInput : localScamDb[k] = registryOp.before[k]
       /\ seedLocalDb(localScamDb, registryOp.entries) = localScamDb

\* a seed call in mixed letter case that overwrites a listed address and
\* adds a new one
C16_Witness ==
  /\ registryOp.op = "seed" /\ Len(registryOp.entries) = 2
  /\ Scammer \in DOMAIN registryOp.before /\ Usdc \notin DOMAIN registryOp.before
  /\ registryOp.entries[1].address = Addr(Scammer.id, TRUE)
  /\ localScamDb[Scammer] # registryOp.before[Scammer]
  /\ DOMAIN localScamDb = {Scammer, Usdc}

ContainsDisclaimer(text) ==
  \E i \in 1..(Len(text) - Len(Disclaimer) + 1) :
    SubSeq(text, i, i + Len(Disclaimer) - 1) = Disclaimer

\* C17: for every report (summary from empty to far longer than the ceiling,
\* key findings and interaction labels of any length) the UTF-8 encoding of
\* formatForCast(report) has at most maxReportLength (1024) bytes and the
\* output contains the full disclaimer text.
C17_CastFitsAndKeepsDisclaimer ==
  doc.op = "format" =>
    /\ utf8Length(doc.cast) <= maxReportLength
    /\ ContainsDisclaimer(doc.cast)

\* a report far longer than the ceiling, of surrogate pairs, cut down to the
\* ellipsis and the disclaimer
C17_Witness ==
  /\ doc.op = "format"
  /\ doc.report.summary = Pairs(LongSummary)
  /\ Len(doc.report.keyFindings) > 0 /\ Len(doc.report.keyFindings[1]) = LongLine
  /\ SubSeq(doc.cast, Len(doc.cast) - Len(Disclaimer) - 4, Len(doc.cast) - Len(Disclaimer))
       = <<"a", "a", "a", "n", "n">>
  /\ utf8Length(doc.cast) > maxReportLength - TruncateStep * 4

UnknownMention(tok) ==
  tok.kind = "addr" /\ toLowerCase(tok.addr) \notin knownAddresses(docData)

\* C20: after validateAiOutput every address-shaped token left in the summary
\* belongs to the verified fact set (the queried address, the senders and the
\* recipients of the transactions); every address-shaped token outside the
\* set, however many, is replaced by the redaction marker and the rest of
\* the text is kept.
C20_OnlyVerifiedAddressesRemain ==
  doc.op = "validate" =>
    /\ Len(doc.clean) = Len(doc.text)
    /\ \A i \in DOMAIN doc.text :
         doc.clean[i] = IF UnknownMention(doc.text[i]) THEN RedactionMarker ELSE doc.text[i]

ReportReplies == {"report", "cached report", "200 report", "200 cached report"}
FailedReplies == {"analysis failed", "500 analysis failed"}

\* a report with every field set, for the address of the request
Complete(report, address) ==
  /\ report # NoReport
  /\ report.address = address
  /\ report.riskLevel \in {"LOW", "MEDIUM", "HIGH"}
  /\ report.riskScore \in 0..100

\* C18: every request whose address passed validation ends with the caller
\* having received a complete report or the analysis-failed message, and
\* never a partial report.
C18_CallerReceivesReportOrFailure ==
  \A r \in ReqIds :
    (requests[r].address # NoAddr /\ requests[r].pc = "done") =>
      /\ requests[r].out # <<>>
      /\ \A i \in DOMAIN requests[r].out :
           /\ requests[r].out[i] \in ReportReplies \cup FailedReplies
           /\ requests[r].out[i] \in ReportReplies =>
                Complete(requests[r].report, requests[r].address)

\* the input is 0x followed by exactly 40 hex digits
WellFormed(text) ==
  /\ Len(text) = AddrDigits + 2
  /\ text[1] = "0" /\ text[2] = "x"
  /\ \A j \in 1..AddrDigits : isHexDigit(text[2 + j])

\* C19: an input whose address fails validation (wrong length, or non-hex
\* characters) is rejected with the invalid-address message before any fetch:
\* no aggregator fetch, registry lookup, scoring or cache access is made for it.
C19_InvalidRejectedBeforeFetch ==
  \A r \in ReqIds :
    (requests[r].pc # "idle" /\ ~WellFormed(requests[r].text)) =>
      /\ requests[r].address = NoAddr
      /\ requests[r].ran = {} /\ ~requests[r].hit
      /\ requests[r].sent \in {<<"invalid address">>, <<"400 invalid address">>}

\* the no-data snapshot: no transactions, no token transfers, null age, zero balance
IsNoDataSnapshot(d) ==
  /\ d.transactionCount = 0 /\ d.transactions = <<>> /\ d.tokenTransfers = <<>>
  /\ d.accountAge = NULL /\ d.balance = 0

\* C21: for the no-data snapshot computeRiskScore returns a score in [0, 100]
\* that is strictly greater than 20, for any number of scam flags.
C21_NoDataScoresAboveTwenty ==
  (Scored /\ IsNoDataSnapshot(data)) => (result.score \in 0..100 /\ result.score > 20)

\* the no-data snapshot without a flag: 7 + 7.5 + 0 + 3 + 0.75 + 4 + 1.5 = 23.75
C21_Witness ==
  Scored /\ IsNoDataSnapshot(data) /\ data.scamFlags = <<>> /\ result.score = 24

\* C22: a wallet that is itself flagged (at least one flag), with an account
\* age of 3 days, transaction count 5 and no fetched transactions or token
\* transfers, is scored HIGH with a score greater than 60.
C22_FlaggedWalletHigh ==
  (Scored /\ Len(data.scamFlags) >= 1 /\ data.accountAge = 3 * SecondsPerDay
          /\ data.transactionCount = 5 /\ data.transactions = <<>>
          /\ data.tokenTransfers = <<>>)
    => (result.level = "HIGH" /\ result.score > 60)

\* S + B in hundredths: the sum of score x weight over the returned signals and
\* the corroboration boost of the number of flags
BoostOfFlags(n) == IF n >= 3 THEN 20 ELSE IF n = 2 THEN 15 ELSE IF n = 1 THEN 10 ELSE 0
SumPlusBoost ==
  SumSeq([i \in 1..Len(result.signals) |-> result.signals[i].score * result.signals[i].weight])
    + 100 * BoostOfFlags(Len(data.scamFlags))
Min(a, b) == IF a < b THEN a ELSE b
Max(a, b) == IF a > b THEN a ELSE b

\* C23: the score equals round(max(0, min(100, S + B))), S the sum of
\* score x weight over the seven signals, B the boost 20 / 15 / 10 / 0 for
\* 3 or more / 2 / 1 / 0 scam flags.
C23_ScoreIsClampedRoundedSum ==
  Scored =>
    /\ Len(result.signals) = 7
    /\ result.score = (Max(0, Min(10000, SumPlusBoost)) + 50) \div 100

\* a sum with a fraction of one half (rounded up) and a sum above 100 (clamped)
C23_Witness ==
  Scored /\ SumPlusBoost % 100 = 50 /\ Len(data.scamFlags) = 2
         /\ result.score = (SumPlusBoost + 50) \div 100

PrimaryBalanceZero == ~(fetch.balance.primary = "ok" /\ fetch.world.balance # 0)
PrimaryContractFalse == ~(fetch.contract.primary = "ok" /\ fetch.world.isContract)

\* C26: the balance branch and the contract branch of fetchWalletData consult
\* the provider rotator exactly when the primary source returns zero (false):
\* a non-zero balance or a true classification is accepted without a
\* cross-check; on zero or false the rotator's answer is used when
\* withFallback succeeds, and the zero or false is kept, without an error,
\* when every provider fails.
C26_CrossCheckOnDefault ==
  /\ fetch.pc # "rejected"
  /\ fetch.balance.state = "rpc" => (PrimaryBalanceZero /\ calls[BalanceCall].pc = "await")
  /\ fetch.balance.state = "settled" =>
       /\ fetch.balance.rpc = "none" <=> ~PrimaryBalanceZero
       /\ fetch.balance.rpc = "none" =>
            (fetch.balance.value = fetch.world.balance /\ calls[BalanceCall].pc = "idle")
       /\ fetch.balance.rpc = "ok" =>
            (fetch.balance.value = fetch.world.rpcBalance /\ calls[BalanceCall].pc = "returned")
       /\ fetch.balance.rpc = "exhausted" =>
            (fetch.balance.value = 0 /\ calls[BalanceCall].pc = "thrown")
  /\ fetch.contract.state = "rpc" => (PrimaryContractFalse /\ calls[ContractCall].pc = "await")
  /\ fetch.contract.state = "settled" =>
       /\ fetch.contract.rpc = "none" <=> ~PrimaryContractFalse
       /\ fetch.contract.rpc = "none" =>
            (fetch.contract.value = 1 /\ calls[ContractCall].pc = "idle")
       /\ fetch.contract.rpc = "ok" =>
            /\ fetch.contract.value = (IF fetch.world.rpcIsContract THEN 1 ELSE 0)
            /\ calls[ContractCall].pc = "returned"
       /\ fetch.contract.rpc = "exhausted" =>
            (fetch.contract.value = 0 /\ calls[ContractCall].pc = "thrown")
  /\ fetch.pc = "done" =>
       /\ fetch.snapshot.balance = fetch.balance.value
       /\ fetch.snapshot.isContract = (fetch.contract.value = 1)

\* the primary source reported a real zero balance, answered by the rotator,
\* and failed on the classification, for which every provider failed too
C26_Witness ==
  /\ fetch.pc = "done"
  /\ fetch.balance.primary = "ok" /\ fetch.world.balance = 0
  /\ fetch.balance.rpc = "ok" /\ fetch.snapshot.balance = fetch.world.rpcBalance
  /\ fetch.contract.primary = "failed" /\ fetch.contract.rpc = "exhausted"
  /\ ~fetch.snapshot.isContract

Truncated(report) == utf8Length(castBody(report) \o report.disclaimer) > maxReportLength

\* C27: when the assembled text exceeds the byte ceiling the output is a
\* prefix of the body (the text assembled before the disclaimer was
\* appended), the ellipsis, and the complete disclaimer; no fragment of the
\* disclaimer appended first remains before the ellipsis and the disclaimer
\* occurs exactly once.
C27_TruncatesBodyOnly ==
  (doc.op = "format" /\ Truncated(doc.report)) =>
    LET body == castBody(doc.report)
        cut == Len(doc.cast) - Len(Disclaimer) - 5
    IN /\ cut >= 0 /\ cut <= Len(body)
       /\ SubSeq(doc.cast, 1, cut) = SubSeq(body, 1, cut)
       /\ SubSeq(doc.cast, cut + 1, Len(doc.cast)) = <<"a", "a", "a", "n", "n">> \o Disclaimer
       /\ \A i \in 1..cut : doc.cast[i] \notin {"D", "d"}
       /\ Cardinality({i \in 1..(Len(doc.cast) - Len(Disclaimer) + 1) :
                         SubSeq(doc.cast, i, i + Len(Disclaimer) - 1) = Disclaimer}) = 1

\* a body just above the ceiling without the disclaimer's reserve: the loop
\* has to trim past the whole disclaimer and into the body
C27_Witness ==
  /\ doc.op = "format" /\ Truncated(doc.report)
  /\ utf8Length(castBody(doc.report)) <= maxReportLength
  /\ Len(doc.cast) - Len(Disclaimer) - 5 < Len(castBody(doc.report))

\* C28: after every checkAndRecord(identity) call, allowed or denied, the
\* history stored for that identity holds no timestamp outside the window
\* (t - ts >= window) and at most MaxQueries timestamps.
C28_StoredHistoryPruned ==
  (lastCheck.fid # 0 /\ lastCheck.at = now) =>
    /\ \A i \in DOMAIN queries[lastCheck.fid] :
         ~(now - queries[lastCheck.fid][i] >= UserWindow)
    /\ Len(queries[lastCheck.fid]) <= MaxQueries

\* a denied call of an identity whose earlier timestamps were already dropped
\* once: the stored history is full and was not rewritten by this call
C28_Witness ==
  /\ lastCheck.fid # 0 /\ lastCheck.at = now /\ ~lastCheck.allowed
  /\ Len(queries[lastCheck.fid]) = MaxQueries
  /\ Len(userLog[lastCheck.fid]) > MaxQueries

\* C29: the "interacted with flagged address" flags fetchWalletData appends
\* name counterpart addresses only: none names the queried address itself,
\* even when it is in the local scam table and is the sender or recipient of
\* its own fetched transactions.
C29_NoInteractionFlagForSelf ==
  fetch.pc = "done" =>
    \A i \in DOMAIN fetch.snapshot.scamFlags :
      fetch.snapshot.scamFlags[i].text = "Interacted with flagged address" =>
        \A a \in fetch.snapshot.scamFlags[i].mentions :
          toLowerCase(a) # toLowerCase(fetch.address)

\* C30: in the message-triggered path an analysis-failed reply is posted only
\* when the analysis pipeline itself failed for the request: a request whose
\* analysis succeeded and whose report was cached (its rendered report was
\* handed to postReply) never issues the analysis-failed reply, also when
\* posting the rendered report fails.
C30_FailureReplyOnlyOnFailedAnalysis ==
  \A r \in ReqIds :
    (requests[r].kind = "webhook" /\ requests[r].sent # <<>>
       /\ requests[r].sent[1] = "report") =>
      \A i \in DOMAIN requests[r].sent : requests[r].sent[i] # "analysis failed"

====
